---- MODULE Spec2Model ----
(***************************************************************************)
(* Model of nf_core/modules/modules_repo.py: the process-wide sync status  *)
(* of the local registry caches, the construction of a ModulesRepo handle  *)
(* (clone / fetch / branch checkout / merge / cache recovery), the         *)
(* installation of a component at a pinned commit, the comparison of an    *)
(* installed module with a commit, and the queries at the branch tip.      *)
(*                                                                         *)
(* One thread of control runs the program (pc); an operation is a chain of *)
(* steps, one step per call into the version-control engine or the file    *)
(* system, and the outcome of such a call is an input of the step.         *)
(*                                                                         *)
(* Spec runs constructions, installations and comparisons; QuerySpec runs  *)
(* the read-only queries (component listing, commit logs, commit lookup)   *)
(* and the comparisons on a constructed handle whose working copy was left *)
(* on any ref; ConcSpec runs installations and comparisons of two          *)
(* processes on one cache directory; RemoteSpec runs the static method     *)
(* get_remote_branches on the listings of git ls-remote.                   *)
(*                                                                         *)
(* PromptSpec is the menu of a parameter group of nf_core/launch.py        *)
(* (Launch.prompt_group and Launch.prompt_param), one step per prompt.     *)
(***************************************************************************)
EXTENDS Integers, Sequences, FiniteSets, TLC

\* Number of calls (constructions, installs, comparisons, queries) the
\* process makes.
MaxCalls == 3

\* Largest depth asked of get_component_git_log.
MaxDepth == 2

\* Number of calls the processes that share a cache directory make together.
MaxConcCalls == 2

---------------------------------------------------------------------------
\* Module constants (modules_repo.py:19-21) and the Python value None.

NF_CORE_MODULES_NAME == "nf-core"

NF_CORE_MODULES_REMOTE == "https://github.com/nf-core/modules.git"

None == "None"

---------------------------------------------------------------------------
\* The remotes of the model and what they hold.

CustomRemote == "https://github.com/acme/modules.git"

Remotes == {NF_CORE_MODULES_REMOTE, CustomRemote}

\* nf_core.modules.modules_utils.repo_full_name_from_remote: the path of the
\* remote URL without its ".git" suffix.
repo_full_name_from_remote(remote_url) ==
    IF remote_url = NF_CORE_MODULES_REMOTE THEN "nf-core/modules" ELSE "acme/modules"

FullNames == {repo_full_name_from_remote(u) : u \in Remotes}

\* The branches of a remote, and the branch its HEAD points to (origin/HEAD of
\* the canonical registry is not the branch setup_branch defaults to, so that
\* the fixed default and the queried default can be told apart).
RemoteBranches(fullname) ==
    IF fullname = "nf-core/modules" THEN {"master", "dev", "old"} ELSE {"main", "dev", "old"}

RemoteHead(fullname) ==
    IF fullname = "nf-core/modules" THEN "dev" ELSE "main"

\* The commits every remote holds; the commits asked of install_component and
\* module_files_identical, with an identifier that names no commit.
Commits == {"c0", "c1", "c2", "c3"}

CommitArgs == {"c1", "c2", "c3", "bad"}

BranchArgs == {None, "master", "main", "dev", "old"}

\* The commit a branch points to: c0 <- c1 <- c2 (master, main),
\* c1 <- c3 (dev), c1 (old).
Tip(branch) ==
    CASE branch = "dev" -> "c3"
      [] branch = "old" -> "c1"
      [] OTHER -> "c2"

\* The parent of a commit (None: a root commit).
Parent(commit) ==
    CASE commit = "c0" -> None
      [] commit = "c1" -> "c0"
      [] OTHER -> "c1"

ComponentTypes == {"modules", "subworkflows"}

ComponentNames == {"fastqc", "trimgalore"}

\* A directory below modules_dir or subworkflows_dir: its path relative to
\* that directory and the names of the files it holds.
Dir(path, files) == [path |-> path, files |-> files]

\* The directories below <component_type>/<org_path> in the tree of a commit
\* (the empty path is that directory itself).
Dirs(commit, component_type) ==
    IF component_type = "modules"
    THEN CASE commit = "c1" ->
                {Dir(<<>>, {}), Dir(<<"fastqc">>, {"main.nf"})}
           [] commit = "c2" ->
                {Dir(<<>>, {}),
                 Dir(<<"fastqc">>, {"main.nf", "meta.yml"}),
                 Dir(<<"trimgalore">>, {"main.nf", "meta.yml"}),
                 Dir(<<"trimgalore", "tests">>, {"main.nf"}),
                 Dir(<<"samtools">>, {"README.md"}),
                 Dir(<<"samtools", "sort">>, {"main.nf", "meta.yml"})}
           [] commit = "c3" ->
                {Dir(<<>>, {}),
                 Dir(<<"trimgalore">>, {"main.nf", "meta.yml"}),
                 Dir(<<"docs">>, {"meta.yml"})}
           [] OTHER -> {}
    ELSE CASE commit = "c2" ->
                {Dir(<<>>, {}), Dir(<<"fastqc">>, {"main.nf", "meta.yml"})}
           [] commit = "c3" -> {Dir(<<>>, {"main.nf"})}
           [] OTHER -> {}

\* The directories os.walk yields pruned below a directory holding main.nf.
RECURSIVE os_walk_pruned(_, _)
os_walk_pruned(dirs, top) ==
    {d \in dirs : d.path = top}
        \cup UNION {os_walk_pruned(dirs, d.path) :
                       d \in {e \in dirs : /\ Len(e.path) = Len(top) + 1
                                            /\ SubSeq(e.path, 1, Len(top)) = top
                                            /\ \A t \in dirs :
                                                  t.path = top => "main.nf" \notin t.files}}

\* os.walk(directory) (modules_repo.py:470): the directory, when it exists,
\* and below it every directory of every directory it yields.
RECURSIVE os_walk(_, _)
os_walk(dirs, top) ==
    {d \in dirs : d.path = top}
        \cup UNION {os_walk(dirs, d.path) :
                       d \in {e \in dirs : /\ Len(e.path) = Len(top) + 1
                                            /\ SubSeq(e.path, 1, Len(top)) = top
                                            /\ \E t \in dirs : t.path = top}}

\* os.path.relpath(dirpath, start=directory) (modules_repo.py:469) of a
\* directory below `directory`, given as the names on the way to it.
RECURSIVE relpath(_)
relpath(path) ==
    CASE Len(path) = 0 -> "."
      [] Len(path) = 1 -> path[1]
      [] OTHER -> path[1] \o "/" \o relpath(Tail(path))

\* modules_repo.py:468-472: the names of the directories holding a main.nf in
\* the tree of a commit.
Tree(commit, component_type) ==
    {relpath(d.path) : d \in {e \in os_walk(Dirs(commit, component_type), <<>>) :
                                "main.nf" \in e.files}}

\* modules_repo.py:378: the files module_files_identical compares.
module_files == {"main.nf", "meta.yml"}

\* The content of a file of a component in the tree of a commit ("missing":
\* no such file). The commits c1 and c3 hold the same main.nf; c1 holds no
\* meta.yml.
File(component_type, commit, component_name, file) ==
    IF component_name \notin Tree(commit, component_type)
    THEN "missing"
    ELSE IF file = "main.nf"
         THEN IF commit = "c2" THEN "main-2" ELSE "main-1"
         ELSE IF commit = "c1" THEN "missing" ELSE "meta-1"

\* The org_path key of the .nf-core.yml in the working copy on a branch
\* (None: the key is missing).
OrgPath(fullname, branch) ==
    CASE fullname = "nf-core/modules" -> NF_CORE_MODULES_NAME
      [] branch = "old" -> None
      [] OTHER -> "acme"

\* The top-level directory names of the working copy on a branch: a legacy
\* layout, a repository that is no registry, the current layout.
DirNames(fullname, branch) ==
    CASE fullname = "acme/modules" /\ branch = "dev" -> {"software", "README.md"}
      [] fullname = "nf-core/modules" /\ branch = "old" -> {"README.md"}
      [] OTHER -> {"modules", "subworkflows"}

---------------------------------------------------------------------------
\* References of a working copy.

NoRef == [kind |-> "none", id |-> None]

BranchRef(branch) == [kind |-> "branch", id |-> branch]

CommitRef(commit) == [kind |-> "commit", id |-> commit]

\* The commit whose tree the working copy shows.
CommitOf(ref) == IF ref.kind = "branch" THEN Tip(ref.id) ELSE ref.id

---------------------------------------------------------------------------
VARIABLES
    local_repo_statuses,   \* ModulesRepo.local_repo_statuses (class attribute)
    no_pull_global,        \* ModulesRepo.no_pull_global (class attribute)
    disk,                  \* per registry: the local cache directory
    head,                  \* per registry: the active ref of the working copy
    installed,             \* per component name: install_dir/<name>
    handles,               \* the ModulesRepo objects constructed so far
    self,                  \* the object the running call is on
    call,                  \* the arguments of the running call
    pc,                    \* where the thread of control is
    result,                \* how the last call ended
    trace,                 \* engine and file system calls of the running constructor
    netSynced,             \* registries with a clone or fetch completed
    noPullSeen,            \* some no_pull argument given so far was True
    ncalls                 \* calls started

vars == <<local_repo_statuses, no_pull_global, disk, head, installed, handles,
          self, call, pc, result, trace, netSynced, noPullSeen, ncalls>>

NoSelf == [remote_url |-> None, fullname |-> None, branch |-> None, repo_path |-> None]

NoCall == [op |-> "none", branch |-> None, no_pull |-> FALSE, was_synced |-> FALSE,
           name |-> None, commit |-> None, kind |-> None]

\* modules_repo.py:379: every file counts as identical to begin with.
AllIdentical == [file \in module_files |-> TRUE]

\* depth=None (modules_repo.py:390): no max_count.
NoDepth == -1

\* The arguments of a query (checkout: the default of get_avail_components
\* and component_exists).
Args(op, name, kind, depth, sha) ==
    [op |-> op, name |-> name, kind |-> kind, depth |-> depth, sha |-> sha,
     checkout |-> TRUE]

NoArgs == Args("none", None, None, NoDepth, None)

\* How a call ended: its return value or exception, for
\* module_files_identical the map it returned, for the constructor whether
\* it called verify_branch, and for a query its arguments, the ref it found
\* the working copy on and the value it returned.
Res(value, why) ==
    [value |-> value, why |-> why, files |-> AllIdentical, verified |-> FALSE,
     of |-> NoArgs, was |-> [kind |-> "none", id |-> None], out |-> None]

\* A call that returned the value `out`.
Returned(op, out) == [Res(op, "none") EXCEPT !.out = out]

NoResult == Res("none", "none")

Absent == [state |-> "absent", kind |-> None, commit |-> None]

---------------------------------------------------------------------------
\* The elements of a sequence.
Range(seq) == {seq[i] : i \in DOMAIN seq}

\* dict.get(repo_name, False) on a sync-status map.
StatusGet(statuses, repo_name) ==
    IF repo_name \in DOMAIN statuses THEN statuses[repo_name] ELSE FALSE

\* ModulesRepo.local_repo_synced (modules_repo.py:76-81)
local_repo_synced(repo_name) == StatusGet(local_repo_statuses, repo_name)

\* ModulesRepo.update_local_repo_status (modules_repo.py:83-88): the new map.
update_local_repo_status(statuses, repo_name, up_to_date) ==
    [n \in (DOMAIN statuses) \cup {repo_name} |->
        IF n = repo_name THEN up_to_date ELSE statuses[n]]

\* A call ends: by a return value or by a raised exception.
Return(value, why) ==
    /\ pc' = "idle"
    /\ result' = Res(value, why)
    /\ self' = NoSelf
    /\ call' = NoCall
    /\ trace' = <<>>

\* modules_repo.py:231: the exceptions the handler of setup_local_repo catches.
Handled(exc) == exc \in {"GitCommandError", "InvalidGitRepositoryError"}

\* An exception raised inside the try block of setup_local_repo
\* (modules_repo.py:181-238), after the engine calls `calls`: the handler takes
\* it or it ends the constructor.
Raise(exc, why, calls) ==
    IF Handled(exc)
    THEN /\ pc' = "recover"
         /\ trace' = trace \o calls
         /\ UNCHANGED <<result, self, call>>
    ELSE Return(exc, why)

Init ==
    /\ local_repo_statuses = [n \in {} |-> TRUE]
    /\ no_pull_global = FALSE
    /\ disk \in [FullNames -> {"absent", "repo", "invalid"}]
    /\ head = [n \in FullNames |->
                  IF disk[n] = "repo" THEN BranchRef(RemoteHead(n)) ELSE NoRef]
    /\ installed = [c \in ComponentNames |-> Absent]
    /\ handles = {}
    /\ self = NoSelf
    /\ call = NoCall
    /\ pc = "idle"
    /\ result = NoResult
    /\ trace = <<>>
    /\ netSynced = {}
    /\ noPullSeen = FALSE
    /\ ncalls = 0

---------------------------------------------------------------------------
\* ModulesRepo.__init__ and setup_local_repo (modules_repo.py:115-238)

UrlArgs == Remotes \cup {None}

\* The flag assigned instead of or-ed in.
NoPullAfter_assigned(no_pull) == no_pull

\* modules_repo.py:121: no_pull_global |= no_pull
NoPullAfter(no_pull) == no_pull_global \/ no_pull

\* modules_repo.py:115-131: the constructor up to the call of setup_local_repo.
ModulesRepo_init(remote_url, branch, no_pull, hide_progress) ==
    /\ pc = "idle"
    /\ ncalls < MaxCalls
    /\ ncalls' = ncalls + 1
    /\ no_pull_global' = NoPullAfter(no_pull)
    /\ noPullSeen' = (noPullSeen \/ no_pull)
    /\ LET url == IF remote_url = None THEN NF_CORE_MODULES_REMOTE ELSE remote_url
           fullname == repo_full_name_from_remote(url)
       IN  /\ self' = [remote_url |-> url,
                       fullname |-> fullname,
                       branch |-> None,
                       repo_path |-> None]
           /\ call' = [NoCall EXCEPT !.op = "init", !.branch = branch,
                                     !.no_pull = no_pull,
                                     !.was_synced = local_repo_synced(fullname)]
    /\ trace' = <<>>
    /\ result' = NoResult
    /\ pc' = "setup"
    /\ UNCHANGED <<local_repo_statuses, disk, head, installed, handles, netSynced>>

\* The registry marked whether or not clone_from raised.
StatusesAfterClone_always(statuses, fullname, clone_ok) ==
    update_local_repo_status(statuses, fullname, TRUE)

\* The registry left unmarked by the clone.
StatusesAfterClone_unmarked(statuses, fullname, clone_ok) == statuses

\* modules_repo.py:192-199: the registry is marked once clone_from has returned.
StatusesAfterClone(statuses, fullname, clone_ok) ==
    IF clone_ok THEN update_local_repo_status(statuses, fullname, TRUE) ELSE statuses

\* The engine error of clone_from left to the handler of setup_local_repo.
CloneFailure_engine == "GitCommandError"

\* modules_repo.py:198-199: the engine error of clone_from becomes a LookupError.
CloneFailure == "LookupError"

\* The values of the environment variable HIDE_PROGRESS (None: not set).
EnvValues == {None, "", "1"}

\* modules_repo.py:189 and :214: the progress bar is not rendered.
disable(hide_progress, HIDE_PROGRESS) == hide_progress \/ HIDE_PROGRESS # None

\* A git operation that succeeds only when its progress is rendered.
with_pbar_rendered_only(disabled, ok) == ok /\ ~disabled

\* modules_repo.py:191-196 and :216-219: the git operation inside `with pbar:`
\* reports to a RemoteProgressbar whatever `disable` is, and its outcome is
\* that of the operation.
with_pbar(disabled, ok) == ok

\* modules_repo.py:182-201: no local directory, clone the remote.
SetupClone(clone_ok, hide_progress, HIDE_PROGRESS) ==
    /\ pc = "setup"
    /\ disk[self.fullname] = "absent"
    /\ IF with_pbar(disable(hide_progress, HIDE_PROGRESS), clone_ok)
       THEN /\ disk' = [disk EXCEPT ![self.fullname] = "repo"]
            /\ head' = [head EXCEPT ![self.fullname] = BranchRef(RemoteHead(self.fullname))]
            /\ netSynced' = netSynced \cup {self.fullname}
            /\ trace' = trace \o <<"clone", "mark">>
            /\ pc' = "branch_new"
            /\ UNCHANGED <<result, self, call>>
       ELSE /\ Raise(CloneFailure, "clone", <<>>)
            /\ UNCHANGED <<disk, head, netSynced>>
    /\ local_repo_statuses' =
          StatusesAfterClone(local_repo_statuses, self.fullname,
                             with_pbar(disable(hide_progress, HIDE_PROGRESS), clone_ok))
    /\ UNCHANGED <<no_pull_global, installed, handles, noPullSeen, ncalls>>

\* modules_repo.py:205-206: with sync suppressed the registry counts as synced.
StatusesAfterOpen(statuses, fullname) ==
    IF no_pull_global
    THEN update_local_repo_status(statuses, fullname, TRUE)
    ELSE statuses

\* A fetch on every existing directory.
ShouldFetch_always(statuses, fullname) == TRUE

\* A fetch decided by the suppress flag alone.
ShouldFetch_unless_suppressed(statuses, fullname) == ~no_pull_global

\* modules_repo.py:208: fetch unless the registry is marked synced.
ShouldFetch(statuses, fullname) == ~StatusGet(statuses, fullname)

\* The registry marked whether or not fetch raised.
StatusesAfterFetch_always(statuses, fullname, fetch_ok) ==
    update_local_repo_status(statuses, fullname, TRUE)

\* modules_repo.py:216-220: the registry is marked once fetch has returned.
StatusesAfterFetch(statuses, fullname, fetch_ok) ==
    IF fetch_ok THEN update_local_repo_status(statuses, fullname, TRUE) ELSE statuses

\* modules_repo.py:202-220: the local directory exists, open it and fetch.
SetupOpen(fetch_ok, hide_progress, HIDE_PROGRESS) ==
    /\ pc = "setup"
    /\ disk[self.fullname] # "absent"
    /\ IF disk[self.fullname] = "invalid"
       THEN \* git.Repo raises InvalidGitRepositoryError
            /\ Raise("InvalidGitRepositoryError", "open", <<>>)
            /\ UNCHANGED <<local_repo_statuses, netSynced>>
       ELSE LET opened == StatusesAfterOpen(local_repo_statuses, self.fullname)
                marked == IF no_pull_global THEN <<"mark">> ELSE <<>>
            IN  IF ShouldFetch(opened, self.fullname)
                THEN /\ local_repo_statuses' =
                           StatusesAfterFetch(
                               opened, self.fullname,
                               with_pbar(disable(hide_progress, HIDE_PROGRESS), fetch_ok))
                     /\ IF with_pbar(disable(hide_progress, HIDE_PROGRESS), fetch_ok)
                        THEN /\ netSynced' = netSynced \cup {self.fullname}
                             /\ trace' = marked \o <<"fetch", "mark">>
                             /\ pc' = "branch_old"
                             /\ UNCHANGED <<self, call, result>>
                        ELSE \* fetch raises GitCommandError
                             /\ Raise("GitCommandError", "fetch", marked \o <<"fetch">>)
                             /\ UNCHANGED netSynced
                ELSE /\ local_repo_statuses' = opened
                     /\ trace' = marked
                     /\ pc' = "branch_old"
                     /\ UNCHANGED <<netSynced, self, call, result>>
    /\ UNCHANGED <<no_pull_global, disk, head, installed, handles, noPullSeen, ncalls>>

\* ModulesRepo.get_default_branch (modules_repo.py:260-266)
get_default_branch(fullname) == RemoteHead(fullname)

\* The default branch queried for every remote.
ResolveBranch_queried(branch, remote_url, fullname) ==
    IF branch = None THEN get_default_branch(fullname) ELSE branch

\* ModulesRepo.setup_branch (modules_repo.py:248-255): the branch it resolves.
ResolveBranch(branch, remote_url, fullname) ==
    IF branch = None
    THEN IF remote_url = NF_CORE_MODULES_REMOTE
         THEN "master"
         ELSE get_default_branch(fullname)
    ELSE branch

\* git checkout <branch> succeeds in a repository that knows the branch.
CanCheckoutBranch(fullname, branch) ==
    disk[fullname] = "repo" /\ branch \in RemoteBranches(fullname)

\* The engine error of the checkout left to the handler of setup_local_repo.
BranchFailure_engine == "GitCommandError"

\* modules_repo.py:272-275: the engine error of the checkout becomes a
\* LookupError.
BranchFailure == "LookupError"

\* The merge step after every setup_branch.
AfterBranch_merge(at) == "merge"

\* modules_repo.py:201 and :224-230: the clone branch ends with setup_branch,
\* the branch of the existing directory goes on to the merge.
AfterBranch(at) == IF at = "branch_new" THEN "config" ELSE "merge"

\* setup_branch and branch_exists (modules_repo.py:240-275), called at
\* modules_repo.py:201 (after a clone) and :224 (on an existing directory).
SetupBranch ==
    /\ pc \in {"branch_new", "branch_old"}
    /\ LET branch == ResolveBranch(call.branch, self.remote_url, self.fullname)
       IN  IF CanCheckoutBranch(self.fullname, branch)
           THEN /\ self' = [self EXCEPT !.branch = branch]
                /\ trace' = Append(trace, "checkout")
                /\ head' = [head EXCEPT ![self.fullname] = BranchRef(branch)]
                /\ pc' = AfterBranch(pc)
                /\ UNCHANGED <<result, call>>
           ELSE /\ Raise(BranchFailure, "branch", <<"checkout">>)
                /\ UNCHANGED head
    /\ UNCHANGED <<local_repo_statuses, no_pull_global, disk, installed, handles,
                   netSynced, noPullSeen, ncalls>>

\* modules_repo.py:226-230: merge the tracking branch of the checked out branch.
SetupMerge(tracking, merge_ok) ==
    /\ pc = "merge"
    /\ IF ~tracking
       THEN Raise("LookupError", "tracking", <<>>)
       ELSE IF merge_ok
            THEN /\ trace' = Append(trace, "merge")
                 /\ pc' = "config"
                 /\ UNCHANGED <<result, self, call>>
            ELSE Raise("GitCommandError", "merge", <<"merge">>)
    /\ UNCHANGED <<local_repo_statuses, no_pull_global, disk, head, installed,
                   handles, netSynced, noPullSeen, ncalls>>

\* The entry of a deleted cache directory reset.
StatusesAfterRmtree_reset(statuses, fullname) ==
    update_local_repo_status(statuses, fullname, FALSE)

\* modules_repo.py:235: shutil.rmtree leaves the sync-status map alone.
StatusesAfterRmtree(statuses, fullname) == statuses

\* The cache directory kept whatever the answer.
DiskAfterPrompt_kept(fullname, confirm) == disk

\* The cache directory deleted whatever the answer.
DiskAfterPrompt_deleted(fullname, confirm) == [disk EXCEPT ![fullname] = "absent"]

\* modules_repo.py:233-238: shutil.rmtree of the cache directory when the
\* prompt is answered yes, nothing when it is answered no.
DiskAfterPrompt(fullname, confirm) ==
    IF confirm THEN [disk EXCEPT ![fullname] = "absent"] ELSE disk

\* modules_repo.py:231-238: the engine error handler of setup_local_repo.
SetupRecover(confirm) ==
    /\ pc = "recover"
    /\ disk' = DiskAfterPrompt(self.fullname, confirm)
    /\ IF confirm
       THEN /\ head' = [head EXCEPT ![self.fullname] = NoRef]
            /\ local_repo_statuses' =
                  StatusesAfterRmtree(local_repo_statuses, self.fullname)
            /\ trace' = Append(trace, "rmtree")
            /\ pc' = "setup"
            /\ UNCHANGED <<result, self, call>>
       ELSE /\ Return("LookupError", "declined")
            /\ UNCHANGED <<head, local_repo_statuses>>
    /\ UNCHANGED <<no_pull_global, installed, handles, netSynced, noPullSeen, ncalls>>

\* Python truth value of a string or None.
Truthy(s) == s # None /\ s # ""

\* A registry without the key read as the canonical one.
org_path_defaulted(repo_path) == IF repo_path = None THEN NF_CORE_MODULES_NAME ELSE repo_path

\* modules_repo.py:134-137: repo_config["org_path"]; None stands for the
\* KeyError of a config without the key.
org_path(repo_path) == repo_path

\* modules_repo.py:140: whether the constructor calls verify_branch.
ShouldVerify(repo_path, branch) == repo_path # NF_CORE_MODULES_NAME \/ Truthy(branch)

\* The hint given with every missing modules directory.
verify_branch_hinting(dir_names) ==
    IF "modules" \notin dir_names THEN "layout_software" ELSE "ok"

\* ModulesRepo.verify_branch (modules_repo.py:277-288): "ok", or which
\* message the LookupError carries.
verify_branch(dir_names) ==
    IF "modules" \notin dir_names
    THEN IF "software" \in dir_names THEN "layout_software" ELSE "layout"
    ELSE "ok"

\* The constructor ends with the exception `exc`, or with a new object.
InitEnds(exc, why, verified, repo_path) ==
    /\ pc' = "idle"
    /\ result' = [Res(exc, why) EXCEPT !.verified = verified]
    /\ self' = NoSelf
    /\ call' = NoCall
    /\ trace' = <<>>
    /\ handles' = IF exc = "ok"
                  THEN handles \cup {[self EXCEPT !.repo_path = repo_path]}
                  ELSE handles

\* modules_repo.py:133-147: the constructor after setup_local_repo.
InitConfig ==
    /\ pc = "config"
    /\ LET repo_path == org_path(OrgPath(self.fullname, self.branch))
           verify == ShouldVerify(repo_path, self.branch)
           verdict == verify_branch(DirNames(self.fullname, self.branch))
       IN  IF repo_path = None
           THEN InitEnds("UserWarning", "org_path", FALSE, repo_path)
           ELSE IF verify /\ verdict # "ok"
                THEN InitEnds("LookupError", verdict, verify, repo_path)
                ELSE InitEnds("ok", "none", verify, repo_path)
    /\ UNCHANGED <<local_repo_statuses, no_pull_global, disk, head, installed,
                   netSynced, noPullSeen, ncalls>>

---------------------------------------------------------------------------
\* ModulesRepo.install_component (modules_repo.py:332-362)

\* modules_repo.py:332: install_component is called on a constructed object.
InstallBegin(h, component_name, commit, component_type) ==
    /\ pc = "idle"
    /\ h \in handles
    /\ ncalls < MaxCalls
    /\ ncalls' = ncalls + 1
    /\ self' = h
    /\ call' = [NoCall EXCEPT !.op = "install", !.name = component_name,
                              !.commit = commit, !.kind = component_type]
    /\ result' = NoResult
    /\ pc' = "inst_checkout"
    /\ UNCHANGED <<local_repo_statuses, no_pull_global, disk, head, installed,
                   handles, trace, netSynced, noPullSeen>>

\* ModulesRepo.checkout left out.
git_checkout_kept(fullname, commit) == head

\* ModulesRepo.checkout (modules_repo.py:296-303), self.repo.git.checkout of a
\* commit: the new active ref.
git_checkout(fullname, commit) == [head EXCEPT ![fullname] = CommitRef(commit)]

\* git checkout <commit> succeeds in a repository that holds the commit.
CanCheckout(fullname, commit) == disk[fullname] = "repo" /\ commit \in Commits

\* The checkout step switching back to the branch when the checkout fails.
InstallCheckout_restoring ==
    /\ pc = "inst_checkout"
    /\ IF CanCheckout(self.fullname, call.commit)
       THEN /\ head' = git_checkout(self.fullname, call.commit)
            /\ pc' = "inst_exists"
            /\ UNCHANGED <<result, self, call, trace>>
       ELSE /\ Return("False", "checkout")
            /\ head' = [head EXCEPT ![self.fullname] = BranchRef(self.branch)]
    /\ UNCHANGED <<local_repo_statuses, no_pull_global, disk, installed, handles,
                   netSynced, noPullSeen, ncalls>>

\* modules_repo.py:344-348: check out the requested commit.
InstallCheckout ==
    /\ pc = "inst_checkout"
    /\ IF CanCheckout(self.fullname, call.commit)
       THEN /\ head' = git_checkout(self.fullname, call.commit)
            /\ pc' = "inst_exists"
            /\ UNCHANGED <<result, self, call, trace>>
       ELSE /\ Return("False", "checkout")
            /\ UNCHANGED head
    /\ UNCHANGED <<local_repo_statuses, no_pull_global, disk, installed, handles,
                   netSynced, noPullSeen, ncalls>>

\* get_avail_components with its checkout: the component directories of the
\* tip of the branch.
get_avail_components_rechecked(fullname, component_type) ==
    Tree(Tip(self.branch), component_type)

\* ModulesRepo.get_avail_components (modules_repo.py:452-473) without its
\* checkout: the component directories of the working copy as it stands.
get_avail_components(fullname, component_type) ==
    IF head[fullname].kind = "none"
    THEN {}
    ELSE Tree(CommitOf(head[fullname]), component_type)

\* component_exists deciding against the tip of the branch, as with its default
\* checkout=True.
component_exists_at_tip(fullname, component_name, component_type) ==
    component_name \in Tree(Tip(self.branch), component_type)

\* ModulesRepo.component_exists (modules_repo.py:305-315) with checkout=False.
component_exists(fullname, component_name, component_type) ==
    component_name \in get_avail_components(fullname, component_type)

\* modules_repo.py:350-355: the component must exist in the checked out tree.
InstallExists ==
    /\ pc = "inst_exists"
    /\ IF component_exists(self.fullname, call.name, call.kind)
       THEN pc' = "inst_copy" /\ UNCHANGED <<result, self, call, trace>>
       ELSE Return("False", "absent")
    /\ UNCHANGED <<local_repo_statuses, no_pull_global, disk, head, installed,
                   handles, netSynced, noPullSeen, ncalls>>

\* modules_repo.py:357-358: shutil.copytree into install_dir/<component_name>;
\* it raises when the destination exists, and may fail midway.
InstallCopy(copy_ok) ==
    /\ pc = "inst_copy"
    /\ IF installed[call.name].state # "absent"
       THEN /\ Return("raise", "FileExistsError")
            /\ UNCHANGED installed
       ELSE IF copy_ok
            THEN /\ installed' = [installed EXCEPT ![call.name] =
                        [state |-> "full", kind |-> call.kind,
                         commit |-> CommitOf(head[self.fullname])]]
                 /\ pc' = "inst_restore"
                 /\ UNCHANGED <<result, self, call, trace>>
            ELSE /\ installed' = [installed EXCEPT ![call.name] =
                        [state |-> "partial", kind |-> call.kind,
                         commit |-> CommitOf(head[self.fullname])]]
                 /\ Return("raise", "Error")
    /\ UNCHANGED <<local_repo_statuses, no_pull_global, disk, head, handles,
                   netSynced, noPullSeen, ncalls>>

\* The active ref left where it is.
checkout_branch_skipped(fullname, branch) == head

\* ModulesRepo.checkout_branch (modules_repo.py:290-294): the new active ref.
checkout_branch(fullname, branch) == [head EXCEPT ![fullname] = BranchRef(branch)]

\* modules_repo.py:360-362: switch back to the tip of the branch.
InstallRestore ==
    /\ pc = "inst_restore"
    /\ head' = checkout_branch(self.fullname, self.branch)
    /\ Return("True", "none")
    /\ UNCHANGED <<local_repo_statuses, no_pull_global, disk, installed, handles,
                   netSynced, noPullSeen, ncalls>>

---------------------------------------------------------------------------
\* ModulesRepo.module_files_identical (modules_repo.py:364-388)

\* module_files_identical is called with the path of the installed module,
\* install_dir/<module_name>, as base_path; commit may be None.
DiffBegin(h, module_name, commit) ==
    /\ pc = "idle"
    /\ h \in handles
    /\ ncalls < MaxCalls
    /\ ncalls' = ncalls + 1
    /\ self' = h
    /\ call' = [NoCall EXCEPT !.op = "diff", !.name = module_name, !.commit = commit]
    /\ result' = NoResult
    /\ pc' = "diff_checkout"
    /\ UNCHANGED <<local_repo_statuses, no_pull_global, disk, head, installed,
                   handles, trace, netSynced, noPullSeen>>

\* modules_repo.py:374-377: check out the branch or the commit; the
\* GitCommandError of a failing checkout is not caught.
DiffCheckout ==
    /\ pc = "diff_checkout"
    /\ IF call.commit = None
       THEN IF CanCheckoutBranch(self.fullname, self.branch)
            THEN /\ head' = checkout_branch(self.fullname, self.branch)
                 /\ pc' = "diff_compare"
                 /\ UNCHANGED <<result, self, call, trace>>
            ELSE /\ Return("raise", "GitCommandError")
                 /\ UNCHANGED head
       ELSE IF CanCheckout(self.fullname, call.commit)
            THEN /\ head' = git_checkout(self.fullname, call.commit)
                 /\ pc' = "diff_compare"
                 /\ UNCHANGED <<result, self, call, trace>>
            ELSE /\ Return("raise", "GitCommandError")
                 /\ UNCHANGED head
    /\ UNCHANGED <<local_repo_statuses, no_pull_global, disk, installed, handles,
                   netSynced, noPullSeen, ncalls>>

\* The content of a file under base_path: what install_component copied there
\* (a copy that failed midway holds main.nf only).
LocalFile(module_name, file) ==
    LET copy == installed[module_name]
    IN  IF copy.state = "absent" \/ (copy.state = "partial" /\ file # "main.nf")
        THEN "missing"
        ELSE File(copy.kind, copy.commit, module_name, file)

\* filecmp.cmp(f1, f2) as called at modules_repo.py:383, with its default
\* shallow=True: two files whose os.stat signatures (type, size, modification
\* time) are equal are taken to be equal, the contents are read only when the
\* signatures differ.
filecmp_cmp(f1, f2, same_stat) == IF same_stat THEN TRUE ELSE f1 = f2

\* A file missing on either side counted as a difference.
FileIdentical_missing_differs(module_name, file, same_stat) ==
    LET upstream == File("modules", CommitOf(head[self.fullname]), module_name, file)
        local == LocalFile(module_name, file)
    IN  IF upstream = "missing" \/ local = "missing"
        THEN FALSE
        ELSE filecmp_cmp(upstream, local, same_stat)

\* modules_repo.py:381-386: filecmp.cmp of one file; FileNotFoundError (a file
\* missing on either side) leaves the entry True.
FileIdentical(module_name, file, same_stat) ==
    LET upstream == File("modules", CommitOf(head[self.fullname]), module_name, file)
        local == LocalFile(module_name, file)
    IN  IF upstream = "missing" \/ local = "missing"
        THEN TRUE
        ELSE filecmp_cmp(upstream, local, same_stat)

\* modules_repo.py:378-386: compare the files of the module; same_stat tells
\* for each file whether the two files have the same size and modification
\* time.
DiffCompare(same_stat) ==
    /\ pc = "diff_compare"
    /\ result' = [result EXCEPT !.files =
                     [file \in module_files |->
                         FileIdentical(call.name, file, same_stat[file])]]
    /\ pc' = "diff_restore"
    /\ UNCHANGED <<local_repo_statuses, no_pull_global, disk, head, installed,
                   handles, self, call, trace, netSynced, noPullSeen, ncalls>>

\* modules_repo.py:387-388: check the branch out and return the map.
DiffRestore ==
    /\ pc = "diff_restore"
    /\ head' = checkout_branch(self.fullname, self.branch)
    /\ pc' = "idle"
    /\ result' = [result EXCEPT !.value = "files"]
    /\ self' = NoSelf
    /\ call' = NoCall
    /\ trace' = <<>>
    /\ UNCHANGED <<local_repo_statuses, no_pull_global, disk, installed, handles,
                   netSynced, noPullSeen, ncalls>>

---------------------------------------------------------------------------
\* The operations that read the branch tip: get_component_git_log,
\* sha_exists_on_branch, get_commit_info, get_avail_components and
\* get_meta_yml (modules_repo.py:390-496). Each checks the branch out first
\* (a GitCommandError is not caught) and changes nothing else.
QueryAtBranchTip(h) ==
    /\ pc = "idle"
    /\ h \in handles
    /\ ncalls < MaxCalls
    /\ ncalls' = ncalls + 1
    /\ IF CanCheckoutBranch(h.fullname, h.branch)
       THEN /\ head' = checkout_branch(h.fullname, h.branch)
            /\ Return("queried", "none")
       ELSE /\ Return("raise", "GitCommandError")
            /\ UNCHANGED head
    /\ UNCHANGED <<local_repo_statuses, no_pull_global, disk, installed, handles,
                   netSynced, noPullSeen>>

---------------------------------------------------------------------------
\* The history of the repository and the operations that read it
\* (modules_repo.py:390-450).

\* The paths a commit changes, in a registry with organizational sub-path
\* `org`: c0 adds a README, c1 moves fastqc from the legacy layout
\* (modules/<name>) to the current one and removes the legacy multiqc.
Touched(org, commit) ==
    CASE commit = "c0" -> {"README.md"}
      [] commit = "c1" ->
            {"modules/" \o org \o "/fastqc", "modules/fastqc", "modules/multiqc"}
      [] commit = "c2" ->
            {"modules/" \o org \o "/fastqc", "modules/" \o org \o "/trimgalore",
             "subworkflows/" \o org \o "/fastqc"}
      [] OTHER ->
            {"modules/" \o org \o "/fastqc", "modules/" \o org \o "/trimgalore"}

\* commit.message, as its lines.
Message(commit) ==
    CASE commit = "c0" -> <<"Initial commit">>
      [] commit = "c1" -> <<"Move fastqc to the new layout", "", "See the migration notes">>
      [] commit = "c2" -> <<"Add trimgalore", "and the fastqc subworkflow">>
      [] OTHER -> <<>>

\* str(commit.committed_datetime.date())
CommittedDate(commit) ==
    CASE commit = "c0" -> "2021-01-01"
      [] commit = "c1" -> "2021-07-07"
      [] commit = "c2" -> "2022-03-03"
      [] OTHER -> "2022-04-04"

\* The commits reachable from a commit, newest first.
RECURSIVE History(_)
History(commit) ==
    IF commit = None THEN <<>> ELSE <<commit>> \o History(Parent(commit))

\* The names asked of the queries: with a module that has a legacy history
\* only and one that was never committed.
QueryNames == ComponentNames \cup {"multiqc", "bwa"}

\* The depths asked of get_component_git_log.
Depths == (0..MaxDepth) \cup {NoDepth}

\* No max_count.
Truncated_uncapped(seq, max_count) == seq

\* The first max_count elements of a sequence.
Truncated(seq, max_count) ==
    IF max_count = NoDepth \/ Len(seq) <= max_count THEN seq ELSE SubSeq(seq, 1, max_count)

\* repo.iter_commits(max_count=..., paths=...) (modules_repo.py:404, 412, 430,
\* 444) with `commit` checked out: the commits reachable from it that change
\* `paths` (None: every commit), newest first, max_count of them at most (NoDepth: all of them).
iter_commits(commit, org, paths, max_count) ==
    Truncated(SelectSeq(History(commit),
                        LAMBDA c : paths = None \/ paths \in Touched(org, c)),
              max_count)

\* commit.message.partition("\n")[0]
first_line(message) == IF Len(message) = 0 THEN "" ELSE message[1]

\* modules_repo.py:405-407 and :413-415: the record of a commit.
CommitRecord(commit) ==
    [git_sha |-> commit, trunc_message |-> first_line(Message(commit))]

Records(commits) == [i \in DOMAIN commits |-> CommitRecord(commits[i])]

\* The two histories merged and each commit listed once.
get_component_git_log_deduplicated(commit, org, component_name, component_type, depth) ==
    LET commits_new == iter_commits(commit, org,
                          component_type \o "/" \o org \o "/" \o component_name, depth)
        commits_old == IF component_type = "modules"
                       THEN iter_commits(commit, org, "modules/" \o component_name, depth)
                       ELSE <<>>
    IN  Records(commits_new
                  \o SelectSeq(commits_old,
                               LAMBDA c : \A i \in DOMAIN commits_new : commits_new[i] # c))

\* ModulesRepo.get_component_git_log (modules_repo.py:403-417) with `commit`
\* checked out.
get_component_git_log(commit, org, component_name, component_type, depth) ==
    LET commits_new == iter_commits(commit, org,
                          component_type \o "/" \o org \o "/" \o component_name, depth)
        commits_old == IF component_type = "modules"
                       THEN iter_commits(commit, org, "modules/" \o component_name, depth)
                       ELSE <<>>
    IN  Records(commits_new) \o Records(commits_old)

\* The query checks the branch of its object out (modules_repo.py:402, 429,
\* 443, 461, 485) and ends, by a value or by an exception.
Query(h, checkout, args, res) ==
    /\ pc = "idle"
    /\ h \in handles
    /\ ncalls < MaxCalls
    /\ ncalls' = ncalls + 1
    /\ head' = IF checkout THEN checkout_branch(h.fullname, h.branch) ELSE head
    /\ result' = [res EXCEPT !.of = [args EXCEPT !.checkout = checkout],
                              !.was = head[h.fullname]]
    /\ UNCHANGED <<local_repo_statuses, no_pull_global, disk, installed, handles,
                   self, call, pc, trace, netSynced, noPullSeen>>

\* ModulesRepo.get_component_git_log (modules_repo.py:390-417)
GetComponentGitLog(h, component_name, component_type, depth) ==
    Query(h, TRUE, Args("log", component_name, component_type, depth, None),
          Returned("log", get_component_git_log(CommitOf(head'[h.fullname]), h.repo_path,
                                                component_name, component_type, depth)))

\* The newest commit of the legacy layout preferred.
get_latest_component_version_legacy(log) ==
    IF Len(log) = 0 THEN Res("raise", "IndexError")
    ELSE Returned("latest", log[Len(log)].git_sha)

\* ModulesRepo.get_latest_component_version (modules_repo.py:419-423), from
\* the log of depth 1: its first record, an IndexError when it has none.
get_latest_component_version(log) ==
    IF Len(log) = 0 THEN Res("raise", "IndexError")
    ELSE Returned("latest", log[1].git_sha)

GetLatestComponentVersion(h, component_name, component_type) ==
    Query(h, TRUE, Args("latest", component_name, component_type, 1, None),
          get_latest_component_version(
              get_component_git_log(CommitOf(head'[h.fullname]), h.repo_path,
                                    component_name, component_type, 1)))

\* A commit found by its being known to the repository.
sha_exists_on_branch_anywhere(commit, org, sha) == sha \in Commits

\* ModulesRepo.sha_exists_on_branch (modules_repo.py:430) with `commit`
\* checked out.
sha_exists_on_branch(commit, org, sha) ==
    \E i \in DOMAIN iter_commits(commit, org, None, NoDepth) :
        iter_commits(commit, org, None, NoDepth)[i] = sha

ShaExistsOnBranch(h, sha) ==
    Query(h, TRUE, Args("sha_exists", None, None, NoDepth, sha),
          Returned("exists",
                   sha_exists_on_branch(CommitOf(head'[h.fullname]), h.repo_path, sha)))

\* The whole message returned.
get_commit_info_whole(commit, org, sha) ==
    IF sha_exists_on_branch(commit, org, sha)
    THEN Returned("info", <<Message(sha), CommittedDate(sha)>>)
    ELSE Res("LookupError", "commit")

\* ModulesRepo.get_commit_info (modules_repo.py:444-450) with `commit`
\* checked out.
get_commit_info(commit, org, sha) ==
    IF \E i \in DOMAIN iter_commits(commit, org, None, NoDepth) :
          iter_commits(commit, org, None, NoDepth)[i] = sha
    THEN Returned("info", <<first_line(Message(sha)), CommittedDate(sha)>>)
    ELSE Res("LookupError", "commit")

GetCommitInfo(h, sha) ==
    Query(h, TRUE, Args("info", None, None, NoDepth, sha),
          get_commit_info(CommitOf(head'[h.fullname]), h.repo_path, sha))

\* ModulesRepo.get_avail_components (modules_repo.py:452-473)
GetAvailComponents(h, component_type, checkout) ==
    Query(h, checkout, Args("components", None, component_type, NoDepth, None),
          Returned("components", Tree(CommitOf(head'[h.fullname]), component_type)))

\* ModulesRepo.component_exists (modules_repo.py:305-315)
ComponentExists(h, component_name, component_type, checkout) ==
    Query(h, checkout, Args("exists", component_name, component_type, NoDepth, None),
          Returned("exists",
                   component_name \in Tree(CommitOf(head'[h.fullname]), component_type)))

\* ModulesRepo.get_meta_yml (modules_repo.py:475-496): the contents of the
\* meta.yml of the component, None when there is no such file.
GetMetaYml(h, component_type, module_name) ==
    Query(h, TRUE, Args("meta", module_name, component_type, NoDepth, None),
          LET contents == File(component_type, CommitOf(head'[h.fullname]),
                               module_name, "meta.yml")
          IN  Returned("meta", IF contents = "missing" THEN None ELSE contents))

---------------------------------------------------------------------------
Next ==
    \/ \E remote_url \in UrlArgs, branch \in BranchArgs, no_pull \in BOOLEAN,
          hide_progress \in BOOLEAN :
            ModulesRepo_init(remote_url, branch, no_pull, hide_progress)
    \/ \E clone_ok \in BOOLEAN, hide_progress \in BOOLEAN, HIDE_PROGRESS \in EnvValues :
            SetupClone(clone_ok, hide_progress, HIDE_PROGRESS)
    \/ \E fetch_ok \in BOOLEAN, hide_progress \in BOOLEAN, HIDE_PROGRESS \in EnvValues :
            SetupOpen(fetch_ok, hide_progress, HIDE_PROGRESS)
    \/ SetupBranch
    \/ \E tracking \in BOOLEAN, merge_ok \in BOOLEAN : SetupMerge(tracking, merge_ok)
    \/ \E confirm \in BOOLEAN : SetupRecover(confirm)
    \/ InitConfig
    \/ \E h \in handles, component_name \in ComponentNames, commit \in CommitArgs,
          component_type \in ComponentTypes :
            InstallBegin(h, component_name, commit, component_type)
    \/ InstallCheckout
    \/ InstallExists
    \/ \E copy_ok \in BOOLEAN : InstallCopy(copy_ok)
    \/ InstallRestore
    \/ \E h \in handles, module_name \in ComponentNames,
          commit \in CommitArgs \cup {None} : DiffBegin(h, module_name, commit)
    \/ DiffCheckout
    \/ \E same_stat \in [module_files -> BOOLEAN] : DiffCompare(same_stat)
    \/ DiffRestore
    \/ \E h \in handles : QueryAtBranchTip(h)

Spec == Init /\ [][Next]_vars

---------------------------------------------------------------------------
\* The queries and the comparison of an installed module, on an object
\* constructed earlier and a working copy left on any ref by the calls
\* before.

\* The objects the constructor returns: canonical registry on master or dev,
\* custom registry on main.
QueryHandles ==
    {[remote_url |-> NF_CORE_MODULES_REMOTE, fullname |-> "nf-core/modules",
      branch |-> "master", repo_path |-> NF_CORE_MODULES_NAME],
     [remote_url |-> NF_CORE_MODULES_REMOTE, fullname |-> "nf-core/modules",
      branch |-> "dev", repo_path |-> NF_CORE_MODULES_NAME],
     [remote_url |-> CustomRemote, fullname |-> "acme/modules",
      branch |-> "main", repo_path |-> "acme"]}

\* The refs a working copy can be on: a branch of the remote, or a commit an
\* install_component left checked out.
Refs(fullname) ==
    {BranchRef(b) : b \in RemoteBranches(fullname)} \cup {CommitRef(c) : c \in Commits \cap CommitArgs}

QueryInit ==
    /\ \E h \in QueryHandles :
          /\ handles = {h}
          /\ head \in {[n \in FullNames |->
                           IF n = h.fullname THEN r ELSE BranchRef(RemoteHead(n))] :
                        r \in Refs(h.fullname)}
          /\ local_repo_statuses = [n \in {h.fullname} |-> TRUE]
          /\ netSynced = {h.fullname}
    /\ no_pull_global = FALSE
    /\ disk = [n \in FullNames |-> "repo"]
    /\ installed \in {[c \in ComponentNames |-> Absent],
                      [c \in ComponentNames |->
                          IF c = "fastqc"
                          THEN [state |-> "full", kind |-> "modules", commit |-> "c1"]
                          ELSE Absent]}
    /\ self = NoSelf
    /\ call = NoCall
    /\ pc = "idle"
    /\ result = NoResult
    /\ trace = <<>>
    /\ noPullSeen = FALSE
    /\ ncalls = 0

QueryNext ==
    \/ \E h \in handles, component_name \in QueryNames,
          component_type \in ComponentTypes, depth \in Depths :
            GetComponentGitLog(h, component_name, component_type, depth)
    \/ \E h \in handles, component_name \in QueryNames,
          component_type \in ComponentTypes :
            GetLatestComponentVersion(h, component_name, component_type)
    \/ \E h \in handles, sha \in CommitArgs \cup Commits : ShaExistsOnBranch(h, sha)
    \/ \E h \in handles, sha \in CommitArgs \cup Commits : GetCommitInfo(h, sha)
    \/ \E h \in handles, component_type \in ComponentTypes, checkout \in BOOLEAN :
            GetAvailComponents(h, component_type, checkout)
    \/ \E h \in handles, component_name \in QueryNames \cup {"trimgalore/tests", "samtools"},
          component_type \in ComponentTypes, checkout \in BOOLEAN :
            ComponentExists(h, component_name, component_type, checkout)
    \/ \E h \in handles, component_type \in ComponentTypes,
          module_name \in QueryNames : GetMetaYml(h, component_type, module_name)
    \/ \E h \in handles, module_name \in ComponentNames,
          commit \in CommitArgs \cup {None} : DiffBegin(h, module_name, commit)
    \/ DiffCheckout
    \/ \E same_stat \in [module_files -> BOOLEAN] : DiffCompare(same_stat)
    \/ DiffRestore

QuerySpec == QueryInit /\ [][QueryNext]_vars

---------------------------------------------------------------------------
\* Two operations on one local cache directory at a time: install_component
\* and module_files_identical called by two processes (two runs of the
\* command line tool, or two threads) that share NFCORE_DIR. Here self, call,
\* pc, result and trace hold one value per process; trace[p] lists the other
\* processes that took a step while the call of p was running.

Procs == {1, 2}

\* The process p takes a step; `ends` tells whether its call ends with it.
Steps(p, ends) ==
    trace' = [q \in Procs |->
                 IF q = p
                 THEN IF ends THEN <<>> ELSE trace[p]
                 ELSE IF pc[q] = "idle" \/ p \in Range(trace[q])
                      THEN trace[q]
                      ELSE Append(trace[q], p)]

\* The call of the process p goes on at `at`.
Goes(p, at) ==
    /\ pc' = [pc EXCEPT ![p] = at]
    /\ Steps(p, FALSE)
    /\ UNCHANGED <<self, call>>

\* The call of the process p ends: by a return value or by a raised exception.
Ends(p, res) ==
    /\ pc' = [pc EXCEPT ![p] = "idle"]
    /\ result' = [result EXCEPT ![p] = res]
    /\ self' = [self EXCEPT ![p] = NoSelf]
    /\ call' = [call EXCEPT ![p] = NoCall]
    /\ Steps(p, TRUE)

\* modules_repo.py:332 or :364: the process p calls install_component
\* (op = "install") or module_files_identical (op = "diff").
ConcBegin(p, h, op, component_name, commit, component_type) ==
    /\ pc[p] = "idle"
    /\ h \in handles
    /\ ncalls < MaxConcCalls
    /\ ncalls' = ncalls + 1
    /\ self' = [self EXCEPT ![p] = h]
    /\ call' = [call EXCEPT ![p] = [NoCall EXCEPT !.op = op, !.name = component_name,
                                                  !.commit = commit,
                                                  !.kind = component_type]]
    /\ result' = [result EXCEPT ![p] = NoResult]
    /\ pc' = [pc EXCEPT ![p] = IF op = "install" THEN "inst_checkout" ELSE "diff_checkout"]
    /\ Steps(p, FALSE)
    /\ UNCHANGED <<local_repo_statuses, no_pull_global, disk, head, installed,
                   handles, netSynced, noPullSeen>>

\* modules_repo.py:344-348: check out the requested commit.
ConcInstallCheckout(p) ==
    /\ pc[p] = "inst_checkout"
    /\ IF CanCheckout(self[p].fullname, call[p].commit)
       THEN /\ head' = git_checkout(self[p].fullname, call[p].commit)
            /\ Goes(p, "inst_exists")
            /\ UNCHANGED result
       ELSE /\ Ends(p, Res("False", "checkout"))
            /\ UNCHANGED head
    /\ UNCHANGED <<local_repo_statuses, no_pull_global, disk, installed, handles,
                   netSynced, noPullSeen, ncalls>>

\* modules_repo.py:350-355: the component must exist in the checked out tree.
ConcInstallExists(p) ==
    /\ pc[p] = "inst_exists"
    /\ IF component_exists(self[p].fullname, call[p].name, call[p].kind)
       THEN Goes(p, "inst_copy") /\ UNCHANGED result
       ELSE Ends(p, Res("False", "absent"))
    /\ UNCHANGED <<local_repo_statuses, no_pull_global, disk, head, installed,
                   handles, netSynced, noPullSeen, ncalls>>

\* modules_repo.py:357-358: shutil.copytree of the component directory of the
\* working copy as it stands; it raises when the destination exists, or when
\* the working copy holds no such directory any more.
ConcInstallCopy(p) ==
    /\ pc[p] = "inst_copy"
    /\ IF installed[call[p].name].state # "absent"
       THEN /\ Ends(p, Res("raise", "FileExistsError"))
            /\ UNCHANGED installed
       ELSE IF ~component_exists(self[p].fullname, call[p].name, call[p].kind)
            THEN /\ Ends(p, Res("raise", "FileNotFoundError"))
                 /\ UNCHANGED installed
            ELSE /\ installed' = [installed EXCEPT ![call[p].name] =
                        [state |-> "full", kind |-> call[p].kind,
                         commit |-> CommitOf(head[self[p].fullname])]]
                 /\ Goes(p, "inst_restore")
                 /\ UNCHANGED result
    /\ UNCHANGED <<local_repo_statuses, no_pull_global, disk, head, handles,
                   netSynced, noPullSeen, ncalls>>

\* modules_repo.py:360-362: switch back to the tip of the branch.
ConcInstallRestore(p) ==
    /\ pc[p] = "inst_restore"
    /\ head' = checkout_branch(self[p].fullname, self[p].branch)
    /\ Ends(p, Res("True", "none"))
    /\ UNCHANGED <<local_repo_statuses, no_pull_global, disk, installed, handles,
                   netSynced, noPullSeen, ncalls>>

\* modules_repo.py:374-377: check out the branch or the commit.
ConcDiffCheckout(p) ==
    /\ pc[p] = "diff_checkout"
    /\ IF call[p].commit = None
       THEN /\ head' = checkout_branch(self[p].fullname, self[p].branch)
            /\ Goes(p, "diff_compare")
            /\ UNCHANGED result
       ELSE IF CanCheckout(self[p].fullname, call[p].commit)
            THEN /\ head' = git_checkout(self[p].fullname, call[p].commit)
                 /\ Goes(p, "diff_compare")
                 /\ UNCHANGED result
            ELSE /\ Ends(p, Res("raise", "GitCommandError"))
                 /\ UNCHANGED head
    /\ UNCHANGED <<local_repo_statuses, no_pull_global, disk, installed, handles,
                   netSynced, noPullSeen, ncalls>>

\* modules_repo.py:381-386 for one file, given the two contents.
CompareFile(upstream, local, same_stat) ==
    IF upstream = "missing" \/ local = "missing"
    THEN TRUE
    ELSE filecmp_cmp(upstream, local, same_stat)

\* modules_repo.py:378-386: compare the files of the module with those of the
\* working copy as it stands (result[p].was: the ref it is on).
ConcDiffCompare(p, same_stat) ==
    /\ pc[p] = "diff_compare"
    /\ result' = [result EXCEPT ![p] =
                     [result[p] EXCEPT
                         !.was = head[self[p].fullname],
                         !.files = [file \in module_files |->
                                       CompareFile(File("modules",
                                                        CommitOf(head[self[p].fullname]),
                                                        call[p].name, file),
                                                   LocalFile(call[p].name, file),
                                                   same_stat[file])]]]
    /\ Goes(p, "diff_restore")
    /\ UNCHANGED <<local_repo_statuses, no_pull_global, disk, head, installed,
                   handles, netSynced, noPullSeen, ncalls>>

\* modules_repo.py:387-388: check the branch out and return the map.
ConcDiffRestore(p) ==
    /\ pc[p] = "diff_restore"
    /\ head' = checkout_branch(self[p].fullname, self[p].branch)
    /\ Ends(p, [result[p] EXCEPT !.value = "files"])
    /\ UNCHANGED <<local_repo_statuses, no_pull_global, disk, installed, handles,
                   netSynced, noPullSeen, ncalls>>

\* One object constructed, its branch checked out, and one module installed
\* or none.
ConcInit ==
    /\ \E h \in QueryHandles :
          /\ handles = {h}
          /\ head = [n \in FullNames |->
                        IF n = h.fullname THEN BranchRef(h.branch)
                        ELSE BranchRef(RemoteHead(n))]
          /\ local_repo_statuses = [n \in {h.fullname} |-> TRUE]
          /\ netSynced = {h.fullname}
    /\ no_pull_global = FALSE
    /\ disk = [n \in FullNames |-> "repo"]
    /\ installed \in {[c \in ComponentNames |-> Absent],
                      [c \in ComponentNames |->
                          IF c = "fastqc"
                          THEN [state |-> "full", kind |-> "modules", commit |-> "c1"]
                          ELSE Absent]}
    /\ self = [p \in Procs |-> NoSelf]
    /\ call = [p \in Procs |-> NoCall]
    /\ pc = [p \in Procs |-> "idle"]
    /\ result = [p \in Procs |-> NoResult]
    /\ trace = [p \in Procs |-> <<>>]
    /\ noPullSeen = FALSE
    /\ ncalls = 0

ConcNext ==
    \/ \E p \in Procs, h \in handles, component_name \in ComponentNames,
          commit \in CommitArgs, component_type \in ComponentTypes :
            ConcBegin(p, h, "install", component_name, commit, component_type)
    \/ \E p \in Procs, h \in handles, module_name \in ComponentNames,
          commit \in CommitArgs \cup {None} :
            ConcBegin(p, h, "diff", module_name, commit, None)
    \/ \E p \in Procs : ConcInstallCheckout(p)
    \/ \E p \in Procs : ConcInstallExists(p)
    \/ \E p \in Procs : ConcInstallCopy(p)
    \/ \E p \in Procs : ConcInstallRestore(p)
    \/ \E p \in Procs : ConcDiffCheckout(p)
    \/ \E p \in Procs, same_stat \in [module_files -> BOOLEAN] : ConcDiffCompare(p, same_stat)
    \/ \E p \in Procs : ConcDiffRestore(p)

ConcSpec == ConcInit /\ [][ConcNext]_vars

---------------------------------------------------------------------------
\* Properties of install_component.

\* C1: whenever install_component returns, True or False, the active ref of
\* the working copy is the tip of the branch of the object it was called on.
C1_InstallReturnsAtBranchTip ==
    [][(call.op = "install" /\ pc' = "idle" /\ result'.value \in {"True", "False"})
          => head'[self.fullname] = BranchRef(self.branch)]_vars

\* C2: once the commit is checked out, install_component ends with the branch
\* checked out whatever the copy step does, also when the copy raises.
C2_BranchRestoredWhateverTheCopy ==
    [][(pc \in {"inst_copy", "inst_restore"} /\ pc' = "idle")
          => head'[self.fullname] = BranchRef(self.branch)]_vars

\* C3: an install of a component that does not exist at the (valid) commit
\* never changes the install directory, and when it ends it returned False.
C3_AbsentComponentInstallsNothing ==
    [][(/\ call.op = "install"
        /\ call.commit \in Commits
        /\ call.name \notin Tree(call.commit, call.kind))
          => /\ installed' = installed
             /\ pc' = "idle" => result'.value = "False"]_vars

\* An install has returned False because the component is absent at the commit.
C3_Witness ==
    /\ pc = "idle"
    /\ result = Res("False", "absent")
    /\ \A c \in ComponentNames : installed[c] = Absent

\* C4: when the checkout of the requested commit fails (no such commit), the
\* call returns False in that very step, with no component lookup and no copy,
\* and with the active refs, the sync-status map, the install directory and
\* the cache directories as they were.
C4_FailedCheckoutChangesNothing ==
    [][(pc = "inst_checkout" /\ call.commit \notin Commits)
          => /\ pc' = "idle"
             /\ result'.value = "False"
             /\ UNCHANGED <<head, local_repo_statuses, installed, disk,
                            no_pull_global, handles>>]_vars

\* An install has returned False at the checkout while the working copy of
\* some registry was left on a commit by an earlier call.
C4_Witness ==
    /\ pc = "idle"
    /\ result = Res("False", "checkout")
    /\ \E n \in FullNames : head[n].kind = "commit"

---------------------------------------------------------------------------
\* Properties of the sync status and of setup_local_repo.

\* The step is setup_local_repo cloning (the clone returned or raised).
CloneStep ==
    /\ pc = "setup"
    /\ \/ Len(trace') = Len(trace) + 2 /\ trace'[Len(trace) + 1] = "clone"
       \/ pc' = "idle" /\ result'.why = "clone"

\* The step is setup_local_repo fetching (the fetch returned or raised).
FetchStep ==
    /\ pc = "setup"
    /\ disk[self.fullname] # "absent"
    /\ "fetch" \in Range(trace')

C7_SyncStatusNeverReset ==
    [][\A n \in FullNames : local_repo_synced(n) => local_repo_synced(n)']_vars

\* A cache recovery has deleted the directory of a registry marked synced.
C7_Witness ==
    \E n \in FullNames : local_repo_synced(n) /\ disk[n] = "absent" /\ pc = "setup"

\* C8: the suppress flag is the OR of the no_pull arguments given so far, it
\* never goes back to false, and while it is true no step fetches.
C8_NoPullIsStickyOr ==
    /\ [](no_pull_global = noPullSeen)
    /\ [][/\ no_pull_global => no_pull_global'
          /\ no_pull_global' => ~FetchStep]_vars

\* A handle constructed with no_pull=False, after one with no_pull=True, has
\* opened an existing directory of a registry never synced, without a fetch.
C8_Witness ==
    /\ pc = "branch_old"
    /\ ~call.no_pull
    /\ ~call.was_synced
    /\ no_pull_global
    /\ "fetch" \notin Range(trace)

\* The calls of the setup_local_repo that found the directory existing: the
\* trace up to the first rmtree, unless it starts with a clone.
FirstRun ==
    IF \E i \in DOMAIN trace : trace[i] = "rmtree"
    THEN SubSeq(trace, 1, (CHOOSE i \in DOMAIN trace :
                              /\ trace[i] = "rmtree"
                              /\ \A j \in 1..(i - 1) : trace[j] # "rmtree") - 1)
    ELSE trace

IsPrefix(s, t) == Len(s) <= Len(t) /\ SubSeq(t, 1, Len(s)) = s

\* fetch (if any), mark, checkout, merge.
ExistingOrders ==
    {<<"fetch", "mark", "checkout", "merge">>,
     <<"mark", "checkout", "merge">>,
     <<"checkout", "merge">>}

InOrder ==
    (call.op = "init" /\ (FirstRun = <<>> \/ FirstRun[1] # "clone"))
        => \E t \in ExistingOrders : IsPrefix(FirstRun, t)

\* C9 as stated: on an existing directory setup_local_repo fetches exactly when
\* sync is not suppressed and the registry is not marked synced, in the order
\* fetch, mark, checkout, merge.
C9_Original ==
    /\ []InOrder
    /\ [][(pc = "setup" /\ disk[self.fullname] # "absent")
             => (FetchStep <=> (~no_pull_global /\ ~local_repo_synced(self.fullname)))]_vars

\* C9 amended: on an existing directory that opens as a repository,
\* setup_local_repo fetches exactly when sync is not suppressed and the
\* registry is not marked synced; on every existing directory the calls come
\* in the order fetch (if any), mark, checkout, merge.
C9_FetchMarkCheckoutMerge ==
    /\ []InOrder
    /\ [][(pc = "setup" /\ disk[self.fullname] = "repo")
             => (FetchStep <=> (~no_pull_global /\ ~local_repo_synced(self.fullname)))]_vars

\* setup_local_repo has fetched, marked, checked out and merged.
C9_Witness ==
    /\ pc = "config"
    /\ trace = <<"fetch", "mark", "checkout", "merge">>

\* C10 as stated: with no local directory setup_local_repo clones; a clone
\* that succeeds marks the registry synced, one that fails raises LookupError
\* and the registry is not marked synced.
C10_Original ==
    [][(pc = "setup" /\ disk[self.fullname] = "absent")
          => /\ CloneStep
             /\ \/ /\ pc' = "branch_new"
                   /\ disk'[self.fullname] = "repo"
                   /\ StatusGet(local_repo_statuses', self.fullname)
                \/ /\ pc' = "idle"
                   /\ result' = Res("LookupError", "clone")
                   /\ ~StatusGet(local_repo_statuses', self.fullname)]_vars

\* C10 amended: with no local directory setup_local_repo clones; a clone that
\* succeeds marks the registry synced, one that fails raises LookupError and
\* leaves the sync-status map and the missing directory as they were.
C10_CloneMarksOnlyOnSuccess ==
    [][(pc = "setup" /\ disk[self.fullname] = "absent")
          => /\ CloneStep
             /\ \/ /\ pc' = "branch_new"
                   /\ disk'[self.fullname] = "repo"
                   /\ StatusGet(local_repo_statuses', self.fullname)
                \/ /\ pc' = "idle"
                   /\ result' = Res("LookupError", "clone")
                   /\ UNCHANGED <<local_repo_statuses, disk>>]_vars

\* A clone has failed and no registry is marked synced.
C10_Witness ==
    /\ pc = "idle"
    /\ result = Res("LookupError", "clone")
    /\ DOMAIN local_repo_statuses = {}

---------------------------------------------------------------------------
\* Properties of the cache recovery of setup_local_repo.

\* The step is the clone raising.
CloneFails == pc = "setup" /\ disk[self.fullname] = "absent" /\ pc' # "branch_new"

\* The step is the fetch raising.
FetchFails == FetchStep /\ pc' # "branch_old"

\* The step is git.Repo raising on a directory that is no repository.
OpenFails == pc = "setup" /\ disk[self.fullname] = "invalid"

\* The step is the merge raising.
MergeFails == pc = "merge" /\ trace' = Append(trace, "merge") /\ pc' # "config"

\* The prompt is answered no: the constructor ends at the prompt.
Declined == pc = "recover" /\ pc' = "idle"

\* At the prompt the directory is deleted and setup_local_repo starts again,
\* or the constructor ends with the LookupError of a declined recovery.
Recovery ==
    pc = "recover"
        => \/ /\ pc' = "setup"
              /\ disk' = [disk EXCEPT ![self.fullname] = "absent"]
              /\ trace' = Append(trace, "rmtree")
           \/ /\ Declined
              /\ result' = Res("LookupError", "declined")

\* The setup_local_repo started after the deletion begins with the clone.
RestartClones == (pc = "setup" /\ "rmtree" \in Range(trace)) => CloneStep

\* C11 as stated: a clone or a fetch that raises, and a directory that is no
\* repository, lead to the recovery prompt; accepted, the directory is deleted
\* and setup_local_repo starts again with the clone.
C11_Original ==
    [][/\ (CloneFails \/ FetchFails \/ OpenFails) => pc' = "recover"
       /\ Recovery
       /\ RestartClones]_vars

\* C11 amended: a fetch or a merge that raises, and a directory that is no
\* repository, lead to the recovery prompt; accepted, the directory is deleted
\* and setup_local_repo starts again with the clone. A clone that raises ends
\* the constructor with a LookupError, and no prompt.
C11_RecoveryOnEngineError ==
    [][/\ (FetchFails \/ MergeFails \/ OpenFails) => pc' = "recover"
       /\ CloneFails => (pc' = "idle" /\ result' = Res("LookupError", "clone"))
       /\ Recovery
       /\ RestartClones]_vars

\* A fetch raised, the recovery was accepted and the clone has succeeded.
C11_Witness ==
    /\ pc = "branch_new"
    /\ trace = <<"fetch", "rmtree", "clone", "mark">>

RmtreeCount == Cardinality({i \in DOMAIN trace : trace[i] = "rmtree"})

\* A measure of what is left of a constructor: the steps of setup_local_repo
\* before the deletion count above those after it.
Rank ==
    IF pc = "idle"
    THEN 0
    ELSE (IF "rmtree" \in Range(trace) THEN 0 ELSE 5)
         + (CASE pc = "setup" -> 5
              [] pc \in {"branch_new", "branch_old"} -> 4
              [] pc = "merge" -> 3
              [] pc = "recover" -> 2
              [] OTHER -> 1)

\* C12: within one construction the directory is deleted at most once and the
\* prompt is reached at most once; after the deletion no step leads to the
\* prompt, and a failure of the retried setup_local_repo is a LookupError;
\* a construction under way always has a step to take, and every step brings
\* it closer to its end.
C12_RecoveryIsOneShot ==
    /\ [](RmtreeCount <= 1)
    /\ [](call.op = "init" => ENABLED Next)
    /\ [][/\ pc = "recover" => "rmtree" \notin Range(trace)
          /\ "rmtree" \in Range(trace)
                => /\ pc' # "recover"
                   /\ (pc \in {"setup", "branch_new"} /\ pc' = "idle")
                         => result'.value = "LookupError"
          /\ call.op = "init" => Rank' < Rank]_vars

\* The clone that followed the deletion has failed: the directory is gone,
\* the registry still reads as synced, the constructor has ended.
C12_Witness ==
    /\ pc = "idle"
    /\ result = Res("LookupError", "clone")
    /\ \E n \in FullNames : local_repo_synced(n) /\ disk[n] = "absent"

\* C13: a declined recovery ends the constructor with a LookupError, in the
\* step of the prompt: the cache directories, the active refs and the
\* sync-status map are as they were, and no clone or fetch follows.
C13_DeclinedRecoveryIsFatal ==
    [][/\ Declined
             => /\ result' = Res("LookupError", "declined")
                /\ UNCHANGED <<disk, head, local_repo_statuses, netSynced, handles>>
       /\ pc = "recover" => (Declined \/ trace' = Append(trace, "rmtree"))]_vars

\* A recovery has been declined and every cache directory is in place.
C13_Witness ==
    /\ pc = "idle"
    /\ result = Res("LookupError", "declined")
    /\ \A n \in FullNames : disk[n] # "absent"

---------------------------------------------------------------------------
\* Properties of the branch checkout and of the merge.

\* C14: a setup_local_repo that cloned goes from the branch checkout to the
\* end without a merge; one that found the directory goes from a successful
\* checkout to the merge; the merge step either merges, or finds no tracking
\* branch and raises LookupError with no merge, no prompt and the cache
\* directory and the active ref as they were.
C14_MergeOnlyWhenPreExisting ==
    [][/\ pc = "branch_new" => pc' \in {"config", "idle"}
       /\ pc = "branch_old" => pc' \in {"merge", "idle"}
       /\ trace' = Append(trace, "merge")
             => (pc = "merge" /\ "clone" \notin Range(trace))
       /\ pc = "merge"
             => \/ /\ trace' = Append(trace, "merge")
                   /\ pc' \in {"config", "recover"}
                \/ /\ pc' = "idle"
                   /\ result' = Res("LookupError", "tracking")
                   /\ UNCHANGED <<disk, head, local_repo_statuses>>]_vars

\* The branch checked out in an existing repository has no tracking branch:
\* the constructor has ended with the LookupError, the directory is in place.
C14_Witness ==
    /\ pc = "idle"
    /\ result = Res("LookupError", "tracking")
    /\ \E n \in FullNames : disk[n] = "repo" /\ n \notin netSynced

\* The step is the checkout of setup_branch failing.
BranchFails == pc \in {"branch_new", "branch_old"} /\ pc' \notin {"config", "merge"}

\* The caller asks for a branch the repository does not hold.
UnknownBranchAsked ==
    /\ pc \in {"branch_new", "branch_old"}
    /\ call.branch # None
    /\ call.branch \notin RemoteBranches(self.fullname)

\* C15: a branch that cannot be checked out ends the constructor with the
\* LookupError of branch_exists, after a clone as on an existing directory:
\* the prompt is not reached, the cache directory, the active ref and the
\* sync-status map are as they were.
C15_UnknownBranchKeepsCache ==
    [][(BranchFails \/ UnknownBranchAsked)
          => /\ pc' = "idle"
             /\ result' = Res("LookupError", "branch")
             /\ UNCHANGED <<disk, head, local_repo_statuses>>]_vars

\* A constructor has ended with the branch not found, the cache directory of
\* a registry cloned or fetched in this process is in place.
C15_Witness ==
    /\ pc = "idle"
    /\ result = Res("LookupError", "branch")
    /\ \E n \in netSynced : disk[n] = "repo" /\ head[n].kind = "branch"

\* The branch the running constructor is to check out, from its arguments.
ExpectedBranch ==
    IF call.branch # None
    THEN call.branch
    ELSE IF self.remote_url = NF_CORE_MODULES_REMOTE
         THEN "master"
         ELSE RemoteHead(self.fullname)

---------------------------------------------------------------------------
\* Properties of the constructor after setup_local_repo.

\* The org_path key of the config of the working copy of the running
\* constructor (None: no such key).
ConfigKey == OrgPath(self.fullname, self.branch)

\* C17: when verify_branch runs on a working copy without a modules
\* directory, the constructor ends with a LookupError and no new object; the
\* message carries the hint on software/ exactly when the working copy has a
\* software directory.
C17_MissingModulesDirIsFatal ==
    [][(/\ pc = "config"
        /\ ConfigKey # None
        /\ ShouldVerify(ConfigKey, self.branch)
        /\ "modules" \notin DirNames(self.fullname, self.branch))
          => /\ pc' = "idle"
             /\ result'.value = "LookupError"
             /\ result'.verified
             /\ result'.why \in {"layout", "layout_software"}
             /\ result'.why = "layout_software"
                   <=> "software" \in DirNames(self.fullname, self.branch)
             /\ handles' = handles]_vars

\* A constructor has ended on a working copy with neither a modules nor a
\* software directory: a LookupError without the hint.
C17_Witness ==
    /\ pc = "idle"
    /\ result = [Res("LookupError", "layout") EXCEPT !.verified = TRUE]

\* C18: of the constructors that get past the config, the one of the
\* canonical registry (org_path "nf-core") called without a branch skips
\* verify_branch, every other one calls it.
C18_VerificationSkippedOnCanonicalDefault ==
    [][(pc = "config" /\ ConfigKey # None)
          => (result'.verified
                <=> ~(ConfigKey = NF_CORE_MODULES_NAME /\ call.branch = None))]_vars

\* C19: a config without the org_path key ends the constructor, once the
\* working copy is set up (the branch is checked out), with a UserWarning:
\* verify_branch is not called and no object comes to be.
C19_MissingOrgPathIsFatal ==
    [][(pc = "config" /\ ConfigKey = None)
          => /\ "checkout" \in Range(trace)
             /\ head[self.fullname] = BranchRef(self.branch)
             /\ pc' = "idle"
             /\ result' = Res("UserWarning", "org_path")
             /\ ~result'.verified
             /\ handles' = handles]_vars

\* A constructor has ended with the UserWarning, on the branch whose config
\* has no org_path key.
C19_Witness ==
    /\ pc = "idle"
    /\ result = Res("UserWarning", "org_path")
    /\ head["acme/modules"] = BranchRef("old")
    /\ handles = {}

---------------------------------------------------------------------------
\* Properties of module_files_identical.

\* C20: a module_files_identical that returns leaves the branch of its object
\* checked out, whatever commit it compared with and whatever files were
\* missing; it raises instead, with the active ref as it was, only when the
\* commit does not exist or the cache directory is no repository any more.
C20_DiffRestoresBranchTip ==
    [][(call.op = "diff" /\ pc' = "idle")
          => \/ /\ result'.value = "files"
                /\ head'[self.fullname] = BranchRef(self.branch)
             \/ /\ result'.value = "raise"
                /\ pc = "diff_checkout"
                /\ call.commit \notin Commits \/ disk[self.fullname] # "repo"
                /\ head' = head]_vars

\* A comparison with another version of an installed module has returned,
\* with a file that differs, and every working copy is on a branch.
C20_Witness ==
    /\ pc = "idle"
    /\ result.value = "files"
    /\ ~result.files["main.nf"]
    /\ \A n \in FullNames : head[n].kind # "commit"

\* The file of the module in the working copy, and the one under base_path.
Upstream(file) == File("modules", CommitOf(head[self.fullname]), call.name, file)

Local(file) == LocalFile(call.name, file)

BothPresent(file) == Upstream(file) # "missing" /\ Local(file) # "missing"

\* C21: module_files_identical maps each of main.nf and meta.yml that exists
\* on both sides to whether the two files have the same content, and its map
\* has exactly these two keys.
C21_ComparesContent ==
    [][pc = "diff_compare"
          => /\ DOMAIN result'.files = module_files
             /\ \A file \in module_files :
                   BothPresent(file)
                      => (result'.files[file] <=> Upstream(file) = Local(file))]_vars

\* C22: a file missing upstream raises nothing and keeps its entry true, and
\* the entries of the other files are those of their comparison: true for
\* equal contents, false only for files present on both sides that differ.
C22_MissingUpstreamKeepsDefault ==
    [][pc = "diff_compare"
          => /\ pc' = "diff_restore"
             /\ \A file \in module_files :
                   /\ Upstream(file) = "missing" => result'.files[file]
                   /\ (BothPresent(file) /\ Upstream(file) = Local(file))
                         => result'.files[file]
                   /\ ~result'.files[file]
                         => (BothPresent(file) /\ Upstream(file) # Local(file))]_vars

\* The commit compared with holds no meta.yml: its entry is true, and the
\* main.nf files, which differ, were compared.
C22_Witness ==
    /\ pc = "diff_restore"
    /\ Upstream("meta.yml") = "missing"
    /\ Local("meta.yml") # "missing"
    /\ result.files = [file \in module_files |-> file = "meta.yml"]

---------------------------------------------------------------------------
\* The names of the directories of the tree of a commit that hold a main.nf
\* themselves, whatever the directories above them hold.
MarkerDirs(commit, component_type) ==
    {relpath(d.path) : d \in {e \in Dirs(commit, component_type) : "main.nf" \in e.files}}

\* The commit a query of the object h reads: the one checked out when it
\* returns.
Read(h) == CommitOf(head'[h.fullname])

\* The query of this step and its arguments.
Asked == result'.of

\* C23: whatever its checkout argument, get_avail_components returns exactly the relative paths of the
\* directories that hold a main.nf themselves, at any depth and whatever an
\* ancestor holds, and component_exists is membership in that list.
C23_ComponentsAreMarkerDirs ==
    [][\A h \in handles :
          /\ Asked.op = "components"
                => result'.out = MarkerDirs(Read(h), Asked.kind)
          /\ Asked.op = "exists"
                => result'.out = (Asked.name \in MarkerDirs(Read(h), Asked.kind))]_vars

\* The list of a tree where a component lies below a component and another
\* below a directory that is none.
C23_Witness ==
    /\ result.of.op = "components"
    /\ {"trimgalore", "trimgalore/tests", "samtools/sort"} \subseteq result.out
    /\ "samtools" \notin result.out

\* The commits of the history read by a query of h that change a path,
\* newest first.
Touching(h, path) ==
    SelectSeq(History(Read(h)), LAMBDA c : path \in Touched(h.repo_path, c))

\* The path of a component in the current layout and in the legacy one.
CurrentLayout(h, component_name, component_type) ==
    component_type \o "/" \o h.repo_path \o "/" \o component_name

LegacyLayout(component_name) == "modules/" \o component_name

\* The first d elements of a sequence, all of them without a depth.
Capped(seq, d) ==
    IF d = NoDepth THEN seq ELSE [i \in 1..(IF Len(seq) < d THEN Len(seq) ELSE d) |-> seq[i]]

\* The commits a log lists.
Shas(log) == [i \in DOMAIN log |-> log[i].git_sha]

\* C24: the log of a module lists the commits that change its current-layout
\* path, newest first, then those that change its legacy-layout path, a
\* commit that changes both listed twice; the log of a subworkflow lists the
\* commits that change its current-layout path only.
C24_CurrentThenLegacy ==
    [][\A h \in handles :
          Asked.op = "log"
             => Shas(result'.out)
                   = Capped(Touching(h, CurrentLayout(h, Asked.name, Asked.kind)), Asked.depth)
                       \o (IF Asked.kind = "modules"
                           THEN Capped(Touching(h, LegacyLayout(Asked.name)), Asked.depth)
                           ELSE <<>>)]_vars

\* The whole log of fastqc on a branch whose tip is c2: c1, which moved it
\* from the legacy layout to the current one, is listed twice.
C24_Witness ==
    /\ result.of = Args("log", "fastqc", "modules", NoDepth, None)
    /\ Shas(result.out) = <<"c2", "c1", "c1">>

\* C25: with a depth d the log holds at most d records of each layout: at
\* most d for a subworkflow, at most 2*d for a module, the first of them at
\* most d commits of the current layout and the rest at most d commits of
\* the legacy layout.
C25_DepthCapsEachLayout ==
    [][\A h \in handles :
          (Asked.op = "log" /\ Asked.depth # NoDepth)
             => /\ Asked.kind = "subworkflows" => Len(result'.out) <= Asked.depth
                /\ Asked.kind = "modules" => Len(result'.out) <= 2 * Asked.depth
                /\ \E k \in 0..Asked.depth :
                      /\ k <= Len(result'.out)
                      /\ Len(result'.out) - k <= Asked.depth
                      /\ \A i \in 1..k :
                            CurrentLayout(h, Asked.name, Asked.kind)
                               \in Touched(h.repo_path, result'.out[i].git_sha)
                      /\ \A i \in (k + 1)..Len(result'.out) :
                            LegacyLayout(Asked.name)
                               \in Touched(h.repo_path, result'.out[i].git_sha)]_vars

\* A log of depth 1 with two records, one of each layout.
C25_Witness ==
    /\ result.of = Args("log", "fastqc", "modules", 1, None)
    /\ Shas(result.out) = <<"c2", "c1">>

\* C26: get_latest_component_version returns the newest commit that changes
\* the current-layout path of the component when there is one, otherwise,
\* for a module, the newest commit that changes its legacy-layout path, and
\* raises when no commit changes either.
C26_LatestVersion ==
    [][\A h \in handles :
          Asked.op = "latest"
             => IF Len(Touching(h, CurrentLayout(h, Asked.name, Asked.kind))) > 0
                THEN /\ result'.value = "latest"
                     /\ result'.out = Head(Touching(h, CurrentLayout(h, Asked.name, Asked.kind)))
                ELSE IF /\ Asked.kind = "modules"
                        /\ Len(Touching(h, LegacyLayout(Asked.name))) > 0
                     THEN /\ result'.value = "latest"
                          /\ result'.out = Head(Touching(h, LegacyLayout(Asked.name)))
                     ELSE result'.value = "raise"]_vars

\* The latest version of a module that has a legacy history only.
C26_Witness ==
    /\ result.of = Args("latest", "multiqc", "modules", 1, None)
    /\ result.value = "latest"
    /\ result.out = "c1"

\* The commits listed by the whole log of some component, of either kind,
\* on the branch of h.
InSomeComponentLog(h) ==
    UNION {Range(Shas(get_component_git_log(Tip(h.branch), h.repo_path,
                                            component_name, component_type, NoDepth))) :
              component_name \in QueryNames, component_type \in ComponentTypes}

\* C27 as stated: sha_exists_on_branch is true exactly for the commits that
\* the whole log of some component lists.
C27_Original ==
    [][\A h \in handles :
          Asked.op = "sha_exists"
             => (result'.out <=> Asked.sha \in InSomeComponentLog(h))]_vars

\* C27: sha_exists_on_branch is true exactly for the commits of the history
\* of the tip of the branch; the commits that the whole log of a component
\* lists are among them.
C27_ExistsIffInBranchHistory ==
    [][\A h \in handles :
          Asked.op = "sha_exists"
             => /\ result'.out <=> Asked.sha \in Range(History(Tip(h.branch)))
                /\ Asked.sha \in InSomeComponentLog(h) => result'.out]_vars

\* The first commit of the repository, which changes no component: it exists
\* on the branch.
C27_Witness ==
    /\ result.of = Args("sha_exists", None, None, NoDepth, "c0")
    /\ result.out = TRUE
    /\ \A h \in handles : "c0" \notin InSomeComponentLog(h)

\* C28: sha_exists_on_branch checks the branch out and is true exactly for
\* the commits reachable from its tip, whatever ref the working copy was on:
\* false for a commit of another branch or after the tip, also when the
\* working copy was on that very commit.
C28_ExistsIffReachableFromTip ==
    [][\A h \in handles :
          Asked.op = "sha_exists"
             => /\ head'[h.fullname] = BranchRef(h.branch)
                /\ result'.out
                      <=> \E i \in DOMAIN History(Tip(h.branch)) :
                             History(Tip(h.branch))[i] = Asked.sha
                /\ (head[h.fullname] = CommitRef(Asked.sha)
                      /\ Asked.sha \notin Range(History(Tip(h.branch))))
                      => ~result'.out]_vars

\* The working copy was on c3, a commit of the branch dev that the branch of
\* the object does not reach: it is not found.
C28_Witness ==
    /\ result.of = Args("sha_exists", None, None, NoDepth, "c3")
    /\ result.was = CommitRef("c3")
    /\ result.out = FALSE
    /\ \A h \in handles : head[h.fullname] = BranchRef(h.branch) /\ Tip(h.branch) = "c2"

\* C29: get_commit_info returns the first line of the message and the date
\* of a commit of the history of the tip of the branch and raises a
\* LookupError for any other sha; either way the working copy is on the
\* branch afterwards.
C29_CommitInfo ==
    [][\A h \in handles :
          Asked.op = "info"
             => /\ head'[h.fullname] = BranchRef(h.branch)
                /\ IF Asked.sha \in Range(History(Tip(h.branch)))
                   THEN /\ result'.value = "info"
                        /\ result'.out
                              = <<IF Message(Asked.sha) = <<>> THEN ""
                                  ELSE Head(Message(Asked.sha)),
                                  CommittedDate(Asked.sha)>>
                   ELSE /\ result'.value = "LookupError"
                        /\ result'.out = None]_vars

\* The information of a commit with a message of three lines, asked with the
\* working copy on a commit of another branch.
C29_Witness ==
    /\ result.of = Args("info", None, None, NoDepth, "c1")
    /\ result.was = CommitRef("c3")
    /\ result.value = "info"
    /\ result.out = <<"Move fastqc to the new layout", "2021-07-07">>
    /\ \A h \in handles : head[h.fullname] = BranchRef(h.branch) /\ Tip(h.branch) = "c2"

---------------------------------------------------------------------------
\* Progress reporting.

---------------------------------------------------------------------------
\* Operations sharing a cache directory.

\* The commit whose files the running call of the process p is to read.
Own(p) == IF call[p].commit = None THEN Tip(self[p].branch) ELSE call[p].commit

\* C31: an install that no step of another process interleaves with copies
\* the files of its own commit, and a comparison that no step of another
\* process interleaves with compares with the files of its own commit (the
\* tip of its branch when it was given none).
C31_SequencedOperationsReadOwnCommit ==
    [][\A p \in Procs :
          /\ (pc[p] = "inst_copy" /\ pc'[p] = "inst_restore" /\ trace[p] = <<>>)
                => installed'[call[p].name].commit = Own(p)
          /\ (pc[p] = "diff_compare" /\ pc'[p] = "diff_restore" /\ trace[p] = <<>>)
                => CommitOf(result'[p].was) = Own(p)]_vars

\* An interleaving: the install of one process has copied the files of the
\* commit that the comparison of the other process, still running, checked
\* out, and not those of its own.
C31_Witness ==
    \E p \in Procs, q \in Procs :
        /\ p # q
        /\ pc[p] = "inst_restore"
        /\ pc[q] = "diff_compare"
        /\ call[q].commit # None
        /\ installed[call[p].name].commit = call[q].commit
        /\ installed[call[p].name].commit # call[p].commit

---------------------------------------------------------------------------
\* The catalog scan of install_component.

\* C32: install_component decides the existence of the component against
\* the tree of the commit it checked out, without another checkout: a
\* component absent at the commit makes it return False, whatever the tip of
\* the branch holds, and a component present at the commit is copied from
\* the tree of the commit, whatever the tip of the branch holds.
C32_ExistenceDecidedAtPinnedCommit ==
    [][/\ pc = "inst_exists"
          => /\ head' = head
             /\ CommitOf(head[self.fullname]) = call.commit
             /\ IF call.name \in MarkerDirs(call.commit, call.kind)
                THEN pc' = "inst_copy"
                ELSE pc' = "idle" /\ result'.value = "False" /\ installed' = installed
       /\ (pc = "inst_copy" /\ installed' # installed)
          => /\ installed'[call.name].commit = call.commit
             /\ installed'[call.name].kind = call.kind]_vars

\* fastqc, which the tip of the branch dev does not hold, was found at the
\* commit c2 and is about to be copied.
C32_Witness ==
    /\ pc = "inst_copy"
    /\ self.branch = "dev"
    /\ call.name = "fastqc"
    /\ call.kind = "modules"
    /\ call.commit = "c2"
    /\ "fastqc" \notin MarkerDirs(Tip("dev"), "modules")
    /\ head[self.fullname] = CommitRef("c2")

---------------------------------------------------------------------------
\* Independence of the ref the working copy is on at entry.

\* What a query with the arguments `asked` returns on the object h when the
\* working copy is at the tip of the branch of h.
AtBranchTip(h, asked) ==
    LET commit == Tip(h.branch)
    IN  CASE asked.op = "log" ->
               Returned("log", get_component_git_log(commit, h.repo_path, asked.name,
                                                     asked.kind, asked.depth))
          [] asked.op = "sha_exists" ->
               Returned("exists", sha_exists_on_branch(commit, h.repo_path, asked.sha))
          [] asked.op = "info" -> get_commit_info(commit, h.repo_path, asked.sha)
          [] asked.op = "components" -> Returned("components", Tree(commit, asked.kind))
          [] asked.op = "exists" -> Returned("exists", asked.name \in Tree(commit, asked.kind))
          [] OTHER ->
               LET contents == File(asked.kind, commit, asked.name, "meta.yml")
               IN  Returned("meta", IF contents = "missing" THEN None ELSE contents)

\* The operations of C33.
EntryIndependent == {"log", "sha_exists", "info", "components", "exists", "meta"}

\* The commit module_files_identical is asked to compare with.
Requested == IF call.commit = None THEN Tip(self.branch) ELSE call.commit

\* C33: with its checkout, each of get_avail_components, component_exists,
\* get_component_git_log, sha_exists_on_branch, get_commit_info and
\* get_meta_yml returns, from whatever ref the working copy is on, what it
\* returns at the tip of the branch, and leaves the working copy there;
\* module_files_identical compares with the files of the commit it is given,
\* whatever ref the working copy was on, and returns with the working copy
\* at the tip of the branch.
C33_ResultsIndependentOfEntryRef ==
    [][/\ \A h \in handles :
             (Asked.op \in EntryIndependent /\ Asked.checkout)
                => /\ head'[h.fullname] = BranchRef(h.branch)
                   /\ [result' EXCEPT !.of = NoArgs, !.was = NoRef] = AtBranchTip(h, Asked)
       /\ pc = "diff_compare"
             => \E same_stat \in [module_files -> BOOLEAN] :
                   result'.files
                      = [file \in module_files |->
                            CompareFile(File("modules", Requested, call.name, file),
                                        LocalFile(call.name, file), same_stat[file])]
       /\ pc = "diff_restore"
             => /\ pc' = "idle"
                /\ result'.value = "files"
                /\ head'[self.fullname] = BranchRef(self.branch)]_vars

\* The log of fastqc, three records, asked with the working copy on the
\* commit c1, a commit that holds one of them only.
C33_Witness ==
    /\ result.of = Args("log", "fastqc", "modules", NoDepth, None)
    /\ result.was = CommitRef("c1")
    /\ Len(result.out) = 3
    /\ \A h \in handles : head[h.fullname] = BranchRef(h.branch)

---------------------------------------------------------------------------
\* ModulesRepo.get_remote_branches (modules_repo.py:90-113), a static method:
\* the names of the refs that `git ls-remote` lists for a remote.

\* The ref names of a listing, as path components, in the order ls-remote
\* prints them.
RefOrder ==
    << <<"HEAD">>, <<"refs", "heads", "dev">>, <<"refs", "heads", "master">>,
       <<"refs", "heads", "release-1.0">> >>

RefNames == Range(RefOrder)

\* The listings: every ref name is missing or listed with one of the commits.
\* A listing is the sequence of the (sha, name) lines of the output.
Listed(at) ==
    SelectSeq([i \in DOMAIN RefOrder |-> [sha |-> at[RefOrder[i]], name |-> RefOrder[i]]],
              LAMBDA line : line.sha # None)

Listings == {Listed(at) : at \in [RefNames -> {"c1", "c2", None}]}

\* pathlib's PurePath.stem: the last path component without its last suffix.
SuffixCut(component) ==
    IF component = "release-1.0" THEN "release-1" ELSE component

Stem(name) == SuffixCut(name[Len(name)])

\* modules_repo.py:107-112: the loop over the lines; `branches` is a dict
\* keyed by sha, so a line replaces the entry of an earlier line with its sha.
RECURSIVE branches_after(_, _)
branches_after(lines, branches) ==
    IF lines = <<>> THEN branches
    ELSE LET sha == Head(lines).sha
             name == Head(lines).name
         IN  branches_after(Tail(lines),
                 IF name # <<"HEAD">>
                 THEN [s \in (DOMAIN branches) \cup {sha} |->
                          IF s = sha THEN Stem(name) ELSE branches[s]]
                 ELSE branches)

\* modules_repo.py:106-113: the set of the values of the dict.
get_remote_branches(unparsed_branches) ==
    LET branches == branches_after(unparsed_branches, [s \in {} |-> None])
    IN  {branches[s] : s \in DOMAIN branches}

\* modules_repo.py:100-113: ls_remote fails (LookupError), prints nothing (the
\* one empty line does not unpack into sha and name: ValueError), or prints
\* the listing.
GetRemoteBranches(remote_url, ls_ok, unparsed_branches) ==
    /\ pc = "idle"
    /\ ncalls < MaxCalls
    /\ ncalls' = ncalls + 1
    /\ call' = [op |-> "get_remote_branches", remote_url |-> remote_url,
                unparsed_branches |-> IF ls_ok THEN unparsed_branches ELSE None]
    /\ result' = IF ~ls_ok THEN Res("LookupError", "ls_remote")
                 ELSE IF unparsed_branches = <<>> THEN Res("ValueError", "unpack")
                 ELSE Returned("branches", get_remote_branches(unparsed_branches))
    /\ UNCHANGED <<local_repo_statuses, no_pull_global, disk, head, installed, handles,
                   self, pc, trace, netSynced, noPullSeen>>

\* A process that has constructed no object and runs no call.
IdleInit ==
    /\ local_repo_statuses = [n \in {} |-> TRUE]
    /\ no_pull_global = FALSE
    /\ disk = [n \in FullNames |-> "absent"]
    /\ head = [n \in FullNames |-> NoRef]
    /\ installed = [c \in ComponentNames |-> Absent]
    /\ handles = {}
    /\ self = NoSelf
    /\ call = NoCall
    /\ pc = "idle"
    /\ result = NoResult
    /\ trace = <<>>
    /\ netSynced = {}
    /\ noPullSeen = FALSE
    /\ ncalls = 0

RemoteNext ==
    \E remote_url \in Remotes, ls_ok \in BOOLEAN, unparsed_branches \in Listings :
        GetRemoteBranches(remote_url, ls_ok, unparsed_branches)

RemoteSpec == IdleInit /\ [][RemoteNext]_vars

---------------------------------------------------------------------------
\* Properties of get_remote_branches.

\* The name of a branch ref: what follows refs/heads/.
BranchName(name) == name[Len(name)]

\* C34: for every listing, the set get_remote_branches returns holds the
\* name of every listed ref other than HEAD, also when two or more branches
\* point to the same commit.
C34_AllListedBranchesReturned ==
    (call.op = "get_remote_branches" /\ result.value = "branches")
        => \A i \in DOMAIN call.unparsed_branches :
              call.unparsed_branches[i].name # <<"HEAD">>
                 => BranchName(call.unparsed_branches[i].name) \in result.out

---------------------------------------------------------------------------
\* Properties of a construction that follows a failed one.

\* The step is the checkout of setup_branch failing after the clone
\* (modules_repo.py:201).
BranchFailsAfterClone == pc = "branch_new" /\ pc' = "idle" /\ result'.why = "branch"

\* The registry is marked synced and its cache directory is a repository.
SyncedOnDisk(n) == StatusGet(local_repo_statuses, n) /\ disk[n] = "repo"

\* The step belongs to a constructor on the registry n.
ConstructorStepOn(n) == call.op = "init" /\ self.fullname = n

\* C35: when the checkout of the branch fails after a successful clone, the
\* registry is left marked synced with its directory on disk; this lasts
\* until the next construction on the registry, and that construction goes
\* to the resolution of the branch without a clone and without a fetch.
C35_FailedBranchLeavesRegistrySynced ==
    [][/\ \A n \in FullNames :
             (BranchFailsAfterClone /\ self.fullname = n) => SyncedOnDisk(n)'
       /\ \A n \in FullNames :
             (SyncedOnDisk(n) /\ ~ConstructorStepOn(n)) => SyncedOnDisk(n)'
       /\ (pc = "setup" /\ SyncedOnDisk(self.fullname))
             => /\ pc' = "branch_old"
                /\ ~CloneStep
                /\ ~FetchStep
                /\ "clone" \notin Range(trace')
                /\ UNCHANGED <<netSynced, disk, local_repo_statuses>>]_vars

\* The second construction of the process is about to resolve its branch: it
\* found the registry marked synced by the first one, which ended without an
\* object, and has called neither clone nor fetch.
C35_Witness ==
    /\ pc = "branch_old"
    /\ ncalls = 2
    /\ handles = {}
    /\ call.was_synced
    /\ ~no_pull_global
    /\ self.fullname \in netSynced
    /\ trace = <<>>

---------------------------------------------------------------------------
\* nf_core/launch.py: Launch.prompt_group and Launch.prompt_param, the menu of
\* a group of parameters.  A step is one PyInquirer prompt answered.

\* The parameters of the group.
Children == {"input", "outdir"}

\* What the user can type at the prompt of a parameter: nothing, blanks, a
\* value.
Typed == {"", " ", "v"}

\* str.strip of a typed answer.
strip(answer) == IF answer = " " THEN "" ELSE answer

\* The JSON Schema objects of a child: a shown string, a hidden string, a
\* nested group.
ChildObjs ==
    {[type |-> "string", hidden |-> FALSE], [type |-> "string", hidden |-> TRUE],
     [type |-> "object", hidden |-> FALSE]}

\* The param_obj of a group: its properties and its list of required
\* parameters.
ParamObjs == [properties : [Children -> ChildObjs], required : SUBSET Children]

\* The defaults in schema_obj.input_params ("": no entry).
InputParams == [Children -> {"", "d"}]

\* schema_obj is None (launch.py:43) until get_pipeline_schema has loaded a
\* schema.
NoSchemaObj ==
    [loaded |-> FALSE, has_group |-> FALSE, input_params |-> [child \in Children |-> ""]]

\* The Launch objects: show_hidden, and schema_obj, which is None or a schema
\* that lists the group in its properties or does not.
Launchers ==
    [show_hidden : BOOLEAN,
     schema_obj : {NoSchemaObj}
                    \cup [loaded : {TRUE}, has_group : BOOLEAN, input_params : InputParams]]

\* dict.get(key, '') on the answers (None: no entry).
AnswerGet(answers, key) == IF answers[key] = None THEN "" ELSE answers[key]

NoAnswers == [child \in Children |-> None]

\* launch.py:367-373: a nested group among the properties.
HasNested(param_obj) == \E child \in Children : param_obj.properties[child].type = "object"

\* launch.py:372-373: the children added to the choices of the menu.
Choices(launcher, param_obj) ==
    {child \in Children : ~param_obj.properties[child].hidden \/ launcher.show_hidden}

\* The check of the required parameters left out.
MissingRequired_unchecked(launcher, param_obj, answers) == {}

\* launch.py:387-393: the required parameters reported at 'Continue >>', when
\* there is a schema and it lists the group: those with no default and no
\* answer.
MissingRequired(launcher, param_obj, answers) ==
    IF launcher.schema_obj.loaded /\ launcher.schema_obj.has_group
    THEN {p_required \in param_obj.required :
             /\ launcher.schema_obj.input_params[p_required] = ""
             /\ AnswerGet(answers, p_required) = ""}
    ELSE {}

\* launch.py:370, 377, 399: the dict prompt_group returns, with the object and
\* the group it was called on.
GroupAnswers(launcher, param_obj, answers) ==
    [Returned("answers", answers) EXCEPT
        !.of = [launcher |-> launcher, param_obj |-> param_obj]]

\* prompt_group ends.
PromptEnds(res) ==
    /\ pc' = "idle"
    /\ result' = res
    /\ self' = NoSelf
    /\ call' = NoCall
    /\ trace' = <<>>

\* launch.py:346-380: the menu is built; a nested group or an empty menu ends
\* the call with an empty dict before any prompt.
PromptGroupBegin(launcher, param_obj) ==
    /\ pc = "idle"
    /\ ncalls < MaxCalls
    /\ ncalls' = ncalls + 1
    /\ IF HasNested(param_obj) \/ Choices(launcher, param_obj) = {}
       THEN PromptEnds(GroupAnswers(launcher, param_obj, NoAnswers))
       ELSE /\ pc' = "group_menu"
            /\ self' = launcher
            /\ call' = [op |-> "prompt_group", param_obj |-> param_obj,
                        answers |-> NoAnswers, child_param |-> None]
            /\ result' = NoResult
            /\ trace' = <<>>
    /\ UNCHANGED <<local_repo_statuses, no_pull_global, disk, head, installed, handles,
                   netSynced, noPullSeen>>

\* launch.py:383-393, 399: 'Continue >>' chosen at the menu.
ChooseContinue ==
    /\ pc = "group_menu"
    /\ IF MissingRequired(self, call.param_obj, call.answers) = {}
       THEN PromptEnds(GroupAnswers(self, call.param_obj, call.answers))
       ELSE /\ trace' = <<"Error - is required.">>
            /\ UNCHANGED <<pc, result, self, call>>
    /\ UNCHANGED <<local_repo_statuses, no_pull_global, disk, head, installed, handles,
                   netSynced, noPullSeen, ncalls>>

\* launch.py:394-397, 333-334: a parameter chosen at the menu, its question
\* asked.
ChooseChild(child_param) ==
    /\ pc = "group_menu"
    /\ child_param \in Choices(self, call.param_obj)
    /\ pc' = "param"
    /\ call' = [call EXCEPT !.child_param = child_param]
    /\ trace' = <<>>
    /\ UNCHANGED <<local_repo_statuses, no_pull_global, disk, head, installed, handles,
                   self, result, netSynced, noPullSeen, ncalls>>

\* launch.py:337-344 and 397: the question answered; an empty answer to a
\* required parameter is asked again, an empty answer adds nothing to the
\* answers.
AnswerParam(answer) ==
    /\ pc = "param"
    /\ IF strip(answer) = "" /\ call.child_param \in call.param_obj.required
       THEN /\ trace' = <<"Error - this property is required.">>
            /\ UNCHANGED <<pc, call>>
       ELSE /\ pc' = "group_menu"
            /\ call' = [call EXCEPT !.child_param = None,
                                    !.answers = IF answer = "" THEN call.answers
                                                ELSE [call.answers EXCEPT
                                                         ![call.child_param] = answer]]
            /\ trace' = <<>>
    /\ UNCHANGED <<local_repo_statuses, no_pull_global, disk, head, installed, handles,
                   self, result, netSynced, noPullSeen, ncalls>>

\* launch.py:334, 339, 383: raise_keyboard_interrupt=True, Ctrl-C at a prompt
\* raises.
PromptInterrupt ==
    /\ pc \in {"group_menu", "param"}
    /\ PromptEnds(Res("KeyboardInterrupt", "prompt"))
    /\ UNCHANGED <<local_repo_statuses, no_pull_global, disk, head, installed, handles,
                   netSynced, noPullSeen, ncalls>>

PromptNext ==
    \/ \E launcher \in Launchers, param_obj \in ParamObjs :
          PromptGroupBegin(launcher, param_obj)
    \/ ChooseContinue
    \/ \E child_param \in Children : ChooseChild(child_param)
    \/ \E answer \in Typed : AnswerParam(answer)
    \/ PromptInterrupt

PromptSpec == IdleInit /\ [][PromptNext]_vars

---------------------------------------------------------------------------
\* Properties of prompt_group.

\* The step is prompt_group returning its dict.
GroupReturns ==
    pc' = "idle" /\ result'.value = "answers" /\ (pc # "idle" \/ ncalls' # ncalls)

\* The step is 'Continue >>' chosen at the menu of the group.
ContinueChosen ==
    pc = "group_menu" /\ pc' # "param" /\ result'.value # "KeyboardInterrupt"

\* Every parameter listed as required for the group has a non-empty default
\* in the input parameters or a non-empty collected answer.
RequiredFilled ==
    \A p \in call.param_obj.required :
        self.schema_obj.input_params[p] # "" \/ AnswerGet(call.answers, p) # ""

\* The error is shown, the menu is prompted again, the answers are kept.
Refused == trace' # <<>> /\ pc' = "group_menu" /\ call'.answers = call.answers

\* C36 as stated: prompt_group returns only at 'Continue >>' chosen with
\* every required parameter filled by a default or by an answer; 'Continue >>'
\* chosen with a required parameter empty shows an error and prompts again,
\* with the answers collected so far kept.
C36_Original ==
    [][/\ GroupReturns => (ContinueChosen /\ RequiredFilled)
       /\ (ContinueChosen /\ ~RequiredFilled) => Refused]_vars

\* The launcher holds a schema whose properties list the group (launch.py:387).
Checked(launcher) == launcher.schema_obj.loaded /\ launcher.schema_obj.has_group

\* The group has no nested group and a child that is shown.
Prompted(launcher, param_obj) ==
    ~HasNested(param_obj) /\ Choices(launcher, param_obj) # {}

\* C36 amended: a group with a nested group or with no child shown returns
\* an empty dict before any prompt; any other group returns only at
\* 'Continue >>', and, when the launcher holds a schema that lists the group,
\* only with every required parameter filled by a default or by an answer;
\* then 'Continue >>' chosen with a required parameter empty shows an error
\* and prompts again, with the answers collected so far kept.
C36_ReturnsAtContinueWithRequiredFilled ==
    [][/\ GroupReturns
             => IF Prompted(result'.of.launcher, result'.of.param_obj)
                THEN /\ ContinueChosen
                     /\ result'.out = call.answers
                     /\ Checked(self) => RequiredFilled
                ELSE pc = "idle" /\ result'.out = NoAnswers
       /\ (ContinueChosen /\ Checked(self) /\ ~RequiredFilled) => Refused]_vars

\* 'Continue >>' was refused: input is required, has no default and no
\* answer, and the answer given for outdir is still there.
C36_Witness ==
    /\ pc = "group_menu"
    /\ trace = <<"Error - is required.">>
    /\ "input" \in call.param_obj.required
    /\ call.answers = [NoAnswers EXCEPT !["outdir"] = "v"]

====
